---- MODULE Spec2Model ----
(***************************************************************************)
(* Model of the connectshere_server core:                                  *)
(*   - the consultant slot engine (consultantService.js),                  *)
(*   - the conversation store and its TTL cache (firebaseService),         *)
(*   - the booking dialogue state machine (bookingStateManager.js),        *)
(*   - the knowledge base (knowledgeService.js).                           *)
(* Times of day are <<hours, minutes>> pairs ("HH:MM"), the absent time    *)
(* (null) is the empty tuple.  Calendar dates are day numbers, day 0       *)
(* being a Sunday.                                                         *)
(***************************************************************************)
EXTENDS Integers, Sequences, FiniteSets, TLC

VARIABLES
    settings,      \* users/{id}/settings/consultant_config
    bookings,      \* users/{id}/bookings, in insertion order
    nowMinutes,    \* tenant-local minutes since midnight of the current day
    proc,          \* the in-flight consultantService calls, one record per caller
    convDocs,      \* users/{id}/conversations/{safeId}: the embedded message arrays
    legacySub,     \* users/{id}/conversations/{safeId}/messages (legacy), oldest first
    legacyFlat,    \* users/{id}/messages (oldest legacy format), oldest first
    legacyMigrationChecked,  \* the per-process set of tenants whose flat collection was read
    flatQueries,   \* how many queries of users/{id}/messages this process has issued (history)
    interactionCount,        \* users/{id}.interactionCount
    aiConfig,      \* users/{id}/settings/ai_config: <<>> when absent, else <<data>>
    cache,         \* the in-memory cache Map: key -> [data, timestamp]
    now,           \* Date.now(), milliseconds
    task,          \* the in-flight firebaseService calls, one record per caller
    written,       \* per conversation, the exchanges whose write succeeded (history)
    bookingStates, \* bookingStateManager's Map: key -> dialogue state
    flow,          \* per key, the dialogue calls made since the last startBooking (history)
    knowledge,     \* users/{id}/knowledge: the chunk documents, in creation order
    knowledgeSources,  \* users/{id}/knowledge_sources: source id -> document
    ragCache,      \* knowledgeService's ragCache Map, in insertion order
    adminDb,       \* whether knowledgeService holds a Firestore handle
    isCredentialFailureDisabled,
    kcall,         \* the in-flight knowledgeService call
    ksearch,       \* the in-flight knowledgeService.searchKnowledge call
    warnings,      \* how often the warning of line 112 was logged (history)
    handler,       \* whatsappService.processMessage: the message being handled
    sessions,      \* whatsappService's sessions Map for the tenant: <<>> or <<session>>
    sockets,       \* the sockets made so far, in order: whether each is still open
    inits,         \* per caller, where its initialize(userId) call stands
    timers,        \* the reconnect timeouts set and neither fired nor cleared
    suppressed,    \* disconnected or logged out, and no initialize asked for since (history)
    sync,          \* autoInitService.syncSessionsForStoredUsers: where it stands
    creds,         \* whether users/{id}/whatsapp_creds holds documents
    gen            \* aiService.generateResponse: the call being answered

bookingVars == <<settings, bookings, nowMinutes, proc>>

convVars == <<convDocs, legacySub, legacyFlat, legacyMigrationChecked, flatQueries,
              interactionCount, aiConfig, cache, now, task, written>>

fsmVars == <<bookingStates, flow>>

knowVars == <<knowledge, knowledgeSources, ragCache, adminDb,
              isCredentialFailureDisabled, kcall, ksearch, warnings>>

waVars == <<handler>>

sessVars == <<sessions, sockets, inits, timers, suppressed, sync, creds>>

\* the services the first three do not call
aiVars == <<gen>>

extVars == <<knowVars, sessVars, aiVars>>

coreVars == <<bookingVars, convVars, fsmVars>>

vars == <<settings, bookings, nowMinutes, proc, convDocs, legacySub, legacyFlat,
          legacyMigrationChecked, flatQueries, interactionCount, aiConfig, cache, now, task,
          written, bookingStates, flow, knowledge, knowledgeSources, ragCache,
          adminDb, isCredentialFailureDisabled, kcall, ksearch, warnings, handler, sessions,
          sockets,
          inits, timers, suppressed, sync, creds, gen>>

----------------------------------------------------------------------------
(* Bounds *)

MaxBookings == 2

\* appends made to a conversation in one run
MaxAppends == 3

\* writes a knowledge chunk document receives in one run
MaxWrites == 2

\* exchanges a conversation may already hold when a run starts
Preloaded == 48

----------------------------------------------------------------------------
(* consultantService.js: time helpers *)

NoTime == <<>>

timeToMinutes(timeStr) == timeStr[1] * 60 + timeStr[2]

minutesToTime(minutes) == <<minutes \div 60, minutes % 60>>

T(h, m) == <<h, m>>

DayNames == <<"sunday", "monday", "tuesday", "wednesday", "thursday", "friday", "saturday">>

getDayName(date) == DayNames[(date % 7) + 1]

DefaultSlotDuration == 30

----------------------------------------------------------------------------
(* consultantService.js: getAvailableSlots, slot generation loop *)

RECURSIVE SlotLoop(_, _, _, _, _, _)
SlotLoop(time, endMinutes, slotDuration, breakStart, breakEnd, allSlots) ==
    IF time + slotDuration <= endMinutes
    THEN IF /\ breakStart # NoTime
            /\ breakEnd # NoTime
            /\ time < timeToMinutes(breakEnd)
            /\ time + slotDuration > timeToMinutes(breakStart)
         THEN SlotLoop(time + slotDuration, endMinutes, slotDuration,
                       breakStart, breakEnd, allSlots)
         ELSE SlotLoop(time + slotDuration, endMinutes, slotDuration,
                       breakStart, breakEnd, Append(allSlots, minutesToTime(time)))
    ELSE allSlots

\* mutant: the loop bound written time + slotDuration < endMinutes
GenerateAllSlotsExclusiveEnd(daySchedule, configuredDuration) ==
    LET slotDuration == IF configuredDuration = 0 THEN DefaultSlotDuration
                        ELSE configuredDuration
    IN SlotLoop(timeToMinutes(daySchedule.start), timeToMinutes(daySchedule.end) - 1,
                slotDuration, daySchedule.breakStart, daySchedule.breakEnd, <<>>)

GenerateAllSlots(daySchedule, configuredDuration) ==
    LET slotDuration == IF configuredDuration = 0 THEN DefaultSlotDuration
                        ELSE configuredDuration
    IN SlotLoop(timeToMinutes(daySchedule.start), timeToMinutes(daySchedule.end),
                slotDuration, daySchedule.breakStart, daySchedule.breakEnd, <<>>)

----------------------------------------------------------------------------
(* consultantService.js: settings as stored by updateSettings / returned by
   getSettings *)

DefaultDay == [enabled |-> TRUE, start |-> T(9, 0), end |-> T(17, 0),
               breakStart |-> T(12, 0), breakEnd |-> T(13, 0)]

DisabledDay == [enabled |-> FALSE, start |-> NoTime, end |-> NoTime,
                breakStart |-> NoTime, breakEnd |-> NoTime]

\* lines 17-18: Saturday is disabled with times, Sunday with none
SaturdayDay == [enabled |-> FALSE, start |-> T(10, 0), end |-> T(14, 0),
                breakStart |-> NoTime, breakEnd |-> NoTime]

DEFAULT_SCHEDULE ==
    [d \in {"monday", "tuesday", "wednesday", "thursday", "friday"} |-> DefaultDay]
    @@ [d \in {"saturday"} |-> SaturdayDay]
    @@ [d \in {"sunday"} |-> DisabledDay]

Settings(enabled, slotDuration, schedule) ==
    [enabled |-> enabled, slotDuration |-> slotDuration, schedule |-> schedule]

\* line 27: a string of the form HH:MM, 00:00 to 23:59
isValidTime(value) == value # NoTime /\ value[1] \in 0..23 /\ value[2] \in 0..59

\* What normalizeDaySchedule (lines 29-52) does with one day of the input:
\* the day it returns, or the error it throws.
DayAfterFallback(dayName, input) ==
    LET fallback == DEFAULT_SCHEDULE[dayName]
    IN [enabled |-> input.enabled,
        start |-> IF isValidTime(input.start) THEN input.start ELSE fallback.start,
        end |-> IF isValidTime(input.end) THEN input.end ELSE fallback.end,
        breakStart |-> IF input.breakStart # NoTime /\ isValidTime(input.breakStart)
                       THEN input.breakStart ELSE fallback.breakStart,
        breakEnd |-> IF input.breakEnd # NoTime /\ isValidTime(input.breakEnd)
                     THEN input.breakEnd ELSE fallback.breakEnd]

\* mutant: the start/end test of line 37 left out
DayThrowsBreakOnly(dayName, input) ==
    LET day == DayAfterFallback(dayName, input)
    IN /\ day.enabled
       /\ day.breakStart # NoTime /\ day.breakEnd # NoTime
       /\ timeToMinutes(day.breakStart) >= timeToMinutes(day.breakEnd)

\* lines 37-43
DayThrows(dayName, input) ==
    LET day == DayAfterFallback(dayName, input)
    IN \/ /\ day.enabled
          /\ \/ day.start = NoTime
             \/ day.end = NoTime
             \/ timeToMinutes(day.start) >= timeToMinutes(day.end)
       \/ /\ day.enabled
          /\ day.breakStart # NoTime /\ day.breakEnd # NoTime
          /\ timeToMinutes(day.breakStart) >= timeToMinutes(day.breakEnd)

\* lines 45-51
normalizeDaySchedule(dayName, input) ==
    LET day == DayAfterFallback(dayName, input)
    IN IF day.enabled THEN day ELSE DisabledDay

\* lines 54-74, with the clamp of slotDuration to 15..120
sanitizeSettings(input) ==
    [enabled |-> input.enabled,
     slotDuration |-> IF input.slotDuration < 15 THEN 15
                      ELSE IF input.slotDuration > 120 THEN 120
                      ELSE input.slotDuration,
     schedule |-> [d \in DOMAIN input.schedule |->
                        normalizeDaySchedule(d, input.schedule[d])]]

SanitizeThrows(input) == \E d \in DOMAIN input.schedule : DayThrows(d, input.schedule[d])

----------------------------------------------------------------------------
(* The calendar of the model: Today is a Thursday, so that Today + 2 is a
   Saturday, which DEFAULT_SCHEDULE disables. *)

Today == CHOOSE d \in 0..6 : getDayName(d) = "thursday"

Dates == {Today - 1, Today, Today + 1, Today + 2}

NowValues == {480, 510}

\* createBooking is called for tomorrow, a past date and a disabled weekday
CreateDates == {Today - 1, Today + 1, Today + 2}

SlotInputs == {T(9, 0), T(10, 0)}

Procs == {1, 2}

ActiveStatuses == {"pending", "confirmed"}

StaffStatuses == {"confirmed", "rejected", "completed"}

ErrUnavailable == "This time slot is no longer available. Please choose another."

ErrJustBooked == "This slot was just booked. Please select another time."

ErrFailed == "Failed to create booking. Please try again."

NoResult ==
    [kind |-> "none", available |-> FALSE, slots |-> <<>>, totalSlots |-> 0,
     bookedCount |-> 0, reason |-> "", success |-> FALSE, error |-> "",
     bookingId |-> 0, tokenNumber |-> 0]

IdleProc ==
    [pc |-> "idle", op |-> "none", date |-> 0, timeSlot |-> NoTime,
     allSlots |-> <<>>, slotAvailable |-> FALSE, existingEmpty |-> FALSE,
     tokenNumber |-> 0, input |-> <<>>, result |-> NoResult]

SeqToSet(s) == {s[i] : i \in 1..Len(s)}

Includes(s, x) == \E i \in 1..Len(s) : s[i] = x

----------------------------------------------------------------------------
(* consultantService.js: getAvailableSlots, as the two store reads it awaits *)

\* mutant: a day taken as disabled only when it carries no start time
SlotsAfterSettingsByStart(date) ==
    LET daySchedule == settings.schedule[getDayName(date)]
    IN IF ~settings.enabled
       THEN [NoResult EXCEPT !.kind = "slots",
                             !.reason = "Consultant booking is not enabled"]
       ELSE IF daySchedule.start = NoTime
       THEN [NoResult EXCEPT !.kind = "slots", !.reason = "Not available on day"]
       ELSE IF date < Today
       THEN [NoResult EXCEPT !.kind = "slots", !.reason = "Cannot book for past dates"]
       ELSE [NoResult EXCEPT !.kind = "pending"]

\* lines 186-227: settings read, enabled / weekday / past-date checks, slot loop
SlotsAfterSettings(date) ==
    LET dayName == getDayName(date)
        daySchedule == settings.schedule[dayName]
    IN IF ~settings.enabled
       THEN [NoResult EXCEPT !.kind = "slots",
                             !.reason = "Consultant booking is not enabled"]
       ELSE IF ~daySchedule.enabled
       THEN [NoResult EXCEPT !.kind = "slots", !.reason = "Not available on day"]
       ELSE IF date < Today
       THEN [NoResult EXCEPT !.kind = "slots", !.reason = "Cannot book for past dates"]
       ELSE [NoResult EXCEPT !.kind = "pending"]

AllSlotsFor(date) ==
    GenerateAllSlots(settings.schedule[getDayName(date)], settings.slotDuration)

\* mutant: the status filter of the bookings query left out
BookedSlotsAnyStatus(date) ==
    {bookings[i].timeSlot : i \in {j \in 1..Len(bookings) :
        /\ bookings[j].date = date
        /\ bookings[j].timeSlot # NoTime}}

\* lines 229-244: the bookings of the date with status pending or confirmed
BookedSlots(date) ==
    {bookings[i].timeSlot : i \in {j \in 1..Len(bookings) :
        /\ bookings[j].date = date
        /\ bookings[j].status \in ActiveStatuses
        /\ bookings[j].timeSlot # NoTime}}

\* lines 254-256: the 30 minute buffer applied to today's slots
NotPast(slot) == timeToMinutes(slot) > nowMinutes + 30

\* lines 246-270
SlotsAfterQuery(date, allSlots) ==
    LET bookedSlots == BookedSlots(date)
        availableSlots == SelectSeq(allSlots, LAMBDA slot : slot \notin bookedSlots)
        isToday == date = Today
        filteredSlots == SelectSeq(availableSlots, NotPast)
        slots == IF isToday THEN filteredSlots ELSE availableSlots
    IN [NoResult EXCEPT !.kind = "slots",
                        !.available = Len(slots) > 0,
                        !.slots = slots,
                        !.totalSlots = Len(allSlots),
                        !.bookedCount = Cardinality(bookedSlots)]

----------------------------------------------------------------------------
(* consultantService.js: the calls, one action per awaited store call *)

\* the call returns: its locals are gone, the caller holds the result
Finish(p, result) ==
    proc' = [proc EXCEPT ![p] = [IdleProc EXCEPT !.pc = "done", !.op = proc[p].op,
                                                 !.date = proc[p].date,
                                                 !.timeSlot = proc[p].timeSlot,
                                                 !.input = proc[p].input,
                                                 !.result = result]]

CreateFailed(error) ==
    [NoResult EXCEPT !.kind = "create", !.success = FALSE, !.error = error]

\* a caller starts getAvailableSlots(userId, date)
CallGetAvailableSlots(p, date) ==
    /\ proc[p].pc = "idle"
    /\ proc' = [proc EXCEPT ![p] = [IdleProc EXCEPT !.pc = "getSettings",
                                                     !.op = "slots", !.date = date]]
    /\ UNCHANGED <<settings, bookings, nowMinutes, convVars, fsmVars, extVars, waVars>>

\* a caller starts createBooking(userId, {date, timeSlot})
CallCreateBooking(p, date, timeSlot) ==
    /\ proc[p].pc = "idle"
    /\ proc' = [proc EXCEPT ![p] = [IdleProc EXCEPT !.pc = "getSettings",
                                                     !.op = "create", !.date = date,
                                                     !.timeSlot = timeSlot]]
    /\ UNCHANGED <<settings, bookings, nowMinutes, convVars, fsmVars, extVars, waVars>>

\* getSettings resolved: lines 186-227 (and 286-291 when createBooking called it)
GetSettingsStep(p) ==
    /\ proc[p].pc = "getSettings"
    /\ LET early == SlotsAfterSettings(proc[p].date)
       IN IF early.kind = "slots"
          THEN IF proc[p].op = "create"
               THEN Finish(p, CreateFailed(ErrUnavailable))
               ELSE Finish(p, early)
          ELSE proc' = [proc EXCEPT ![p].pc = "queryBookings",
                                    ![p].allSlots = AllSlotsFor(proc[p].date)]
    /\ UNCHANGED <<settings, bookings, nowMinutes, convVars, fsmVars, extVars, waVars>>

\* the bookings query resolved: lines 236-270 (and 286-291 in createBooking)
QueryBookingsStep(p) ==
    /\ proc[p].pc = "queryBookings"
    /\ LET slotsResult == SlotsAfterQuery(proc[p].date, proc[p].allSlots)
       IN IF proc[p].op = "slots"
          THEN Finish(p, slotsResult)
          ELSE IF ~slotsResult.available \/ ~Includes(slotsResult.slots, proc[p].timeSlot)
          THEN Finish(p, CreateFailed(ErrUnavailable))
          ELSE proc' = [proc EXCEPT ![p].pc = "existingQuery", ![p].allSlots = <<>>,
                                    ![p].slotAvailable = TRUE]
    /\ UNCHANGED <<settings, bookings, nowMinutes, convVars, fsmVars, extVars, waVars>>

\* lines 297-310: the narrow existence query
ExistingEmpty(date, timeSlot) ==
    ~\E i \in 1..Len(bookings) :
        /\ bookings[i].date = date
        /\ bookings[i].timeSlot = timeSlot
        /\ bookings[i].status \in ActiveStatuses

\* mutant: the result of the narrow query ignored
ExistingQueryStepUnchecked(p) ==
    /\ proc[p].pc = "existingQuery"
    /\ proc' = [proc EXCEPT ![p].pc = "dayCount",
                            ![p].existingEmpty =
                                ExistingEmpty(proc[p].date, proc[p].timeSlot)]
    /\ UNCHANGED <<settings, bookings, nowMinutes, convVars, fsmVars, extVars, waVars>>

ExistingQueryStep(p) ==
    /\ proc[p].pc = "existingQuery"
    /\ LET empty == ExistingEmpty(proc[p].date, proc[p].timeSlot)
       IN IF ~empty
          THEN Finish(p, CreateFailed(ErrJustBooked))
          ELSE proc' = [proc EXCEPT ![p].pc = "dayCount", ![p].existingEmpty = TRUE]
    /\ UNCHANGED <<settings, bookings, nowMinutes, convVars, fsmVars, extVars, waVars>>

\* lines 312-318: token number from the count of the date's bookings
\* mutant: the day's count taken over the pending and confirmed bookings only
DayBookingsSizeActive(date) ==
    Cardinality({i \in 1..Len(bookings) :
                    bookings[i].date = date /\ bookings[i].status \in ActiveStatuses})

DayBookingsSize(date) ==
    Cardinality({i \in 1..Len(bookings) : bookings[i].date = date})

DayCountStep(p) ==
    /\ proc[p].pc = "dayCount"
    /\ proc' = [proc EXCEPT ![p].pc = "insert",
                            ![p].tokenNumber = DayBookingsSize(proc[p].date) + 1]
    /\ UNCHANGED <<settings, bookings, nowMinutes, convVars, fsmVars, extVars, waVars>>

\* lines 320-341: addDoc and the success result
NewBooking(p) ==
    [date |-> proc[p].date, timeSlot |-> proc[p].timeSlot,
     tokenNumber |-> proc[p].tokenNumber, status |-> "pending"]

InsertStep(p) ==
    /\ proc[p].pc = "insert"
    /\ Len(bookings) < MaxBookings
    /\ bookings' = Append(bookings, NewBooking(p))
    /\ Finish(p, [NoResult EXCEPT !.kind = "create", !.success = TRUE,
                                  !.bookingId = Len(bookings) + 1,
                                  !.tokenNumber = proc[p].tokenNumber])
    /\ UNCHANGED <<settings, nowMinutes, convVars, fsmVars, extVars, waVars>>

\* what updateSettings returns: true, or false from its catch (lines 107-120)
UpdateResult(success) == [NoResult EXCEPT !.kind = "update", !.success = success]

\* a caller starts updateSettings(userId, settings): sanitizeSettings runs, and
\* what it throws is caught at once
CallUpdateSettings(p, input) ==
    /\ proc[p].pc = "idle"
    /\ IF SanitizeThrows(input)
       THEN proc' = [proc EXCEPT ![p] = [IdleProc EXCEPT !.pc = "done", !.op = "update",
                                                         !.input = input,
                                                         !.result = UpdateResult(FALSE)]]
       ELSE proc' = [proc EXCEPT ![p] = [IdleProc EXCEPT !.pc = "setDoc", !.op = "update",
                                                         !.input = input]]
    /\ UNCHANGED <<settings, bookings, nowMinutes, convVars, fsmVars, extVars, waVars>>

\* lines 111-115: setDoc with merge, every field of the stored settings given
SetDocStep(p) ==
    /\ proc[p].pc = "setDoc"
    /\ settings' = sanitizeSettings(proc[p].input)
    /\ Finish(p, UpdateResult(TRUE))
    /\ UNCHANGED <<bookings, nowMinutes, convVars, fsmVars, extVars, waVars>>

\* a store call rejects: createBooking's catch (342-345) returns the failure,
\* getAvailableSlots' catch (271-274) rethrows
StoreError(p) ==
    /\ proc[p].pc \in {"getSettings", "queryBookings", "existingQuery", "dayCount",
                       "insert", "setDoc"}
    /\ IF proc[p].op = "create"
       THEN Finish(p, CreateFailed(ErrFailed))
       ELSE IF proc[p].op = "update"
       THEN Finish(p, UpdateResult(FALSE))
       ELSE Finish(p, [NoResult EXCEPT !.kind = "threw"])
    /\ UNCHANGED <<settings, bookings, nowMinutes, convVars, fsmVars, extVars, waVars>>

\* the caller has its result; the task ends
Return(p) ==
    /\ proc[p].pc = "done"
    /\ proc' = [proc EXCEPT ![p] = IdleProc]
    /\ UNCHANGED <<settings, bookings, nowMinutes, convVars, fsmVars, extVars, waVars>>

\* lines 391-413: updateBookingStatus, one updateDoc
UpdateBookingStatus(bookingId, status) ==
    /\ bookingId \in 1..Len(bookings)
    /\ bookings[bookingId].status # status
    /\ bookings' = [bookings EXCEPT ![bookingId].status = status]
    /\ UNCHANGED <<settings, nowMinutes, proc, convVars, fsmVars, extVars, waVars>>

\* tenant-local time passes (getKolkataTime, lines 125-127)
Tick ==
    /\ \E t \in NowValues : t > nowMinutes /\ nowMinutes' = t
    /\ UNCHANGED <<settings, bookings, proc, convVars, fsmVars, extVars, waVars>>

----------------------------------------------------------------------------
(* firebaseService (src/unnamed/part_001): strings, as sequences of characters *)

Digits == <<"0", "1", "2", "3", "4", "5", "6", "7", "8", "9">>

RECURSIVE NumberToString(_)
NumberToString(n) ==
    IF n < 10 THEN <<Digits[n + 1]>>
    ELSE NumberToString(n \div 10) \o <<Digits[(n % 10) + 1]>>

SafeChars ==
    {"a", "b", "c", "d", "e", "f", "g", "h", "i", "j", "k", "l", "m", "n", "o", "p",
     "q", "r", "s", "t", "u", "v", "w", "x", "y", "z",
     "A", "B", "C", "D", "E", "F", "G", "H", "I", "J", "K", "L", "M", "N", "O", "P",
     "Q", "R", "S", "T", "U", "V", "W", "X", "Y", "Z"}
    \cup SeqToSet(Digits) \cup {"_", "-"}

RECURSIVE Trim(_)
Trim(str) ==
    IF str = <<>> THEN str
    ELSE IF Head(str) = " " THEN Trim(Tail(str))
    ELSE IF str[Len(str)] = " " THEN Trim(SubSeq(str, 1, Len(str) - 1))
    ELSE str

DefaultId == <<"d", "e", "f", "a", "u", "l", "t">>

\* lines 65-69; the absent id (null, undefined, '') is the empty string
normalizeConversationId(conversationId) ==
    LET clean == Trim(conversationId)
    IN IF clean = <<>> THEN DefaultId
       ELSE [i \in 1..Len(clean) |-> IF clean[i] \in SafeChars THEN clean[i] ELSE "_"]

\* String.prototype.includes
StrIncludes(str, pattern) ==
    \E i \in 0..(Len(str) - Len(pattern)) : SubSeq(str, i + 1, i + Len(pattern)) = pattern

HistoryPrefix == <<"h", "i", "s", "t", "o", "r", "y", ":">>

AISettingsPrefix == <<"a", "i", "S", "e", "t", "t", "i", "n", "g", "s", ":">>

UserId == <<"u", "1">>

\* line 234
HistoryCacheKey(userId, conversationId, messageLimit) ==
    HistoryPrefix \o userId \o <<":">>
        \o (IF conversationId = <<>> THEN DefaultId ELSE conversationId)
        \o <<":">> \o NumberToString(messageLimit)

\* line 135
HistoryInvalidationPattern(userId, safeConversationId) ==
    HistoryPrefix \o userId \o <<":">> \o safeConversationId

\* line 380
AISettingsCacheKey(userId) == AISettingsPrefix \o userId

----------------------------------------------------------------------------
(* firebaseService: the caching layer, lines 23-61 *)

Null == [type |-> "null"]

Arr(items) == [type |-> "array", items |-> items]

Obj(value) == [type |-> "object", value |-> value]

\* lines 24-30
CACHE_TTL ==
    [aiSettings |-> 120000, userProfile |-> 120000, onboarding |-> 300000,
     dashboardStats |-> 60000, conversationHistory |-> 30000]

\* line 55
maxTtl ==
    CHOOSE m \in {CACHE_TTL[n] : n \in DOMAIN CACHE_TTL} :
        \A n \in DOMAIN CACHE_TTL : CACHE_TTL[n] <= m

\* mutant: the age compared the wrong way round
getCachedInverted(key, ttl) ==
    IF key \in DOMAIN cache /\ now - cache[key].timestamp >= ttl
    THEN cache[key].data
    ELSE Null

\* lines 32-38
getCached(key, ttl) ==
    IF key \in DOMAIN cache /\ now - cache[key].timestamp < ttl
    THEN cache[key].data
    ELSE Null

\* lines 40-42
setCache(map, key, data) ==
    (key :> [data |-> data, timestamp |-> now]) @@ map

\* mutant: invalidateCache deleting nothing
invalidateCacheNoop(map, pattern) == map

\* lines 44-50
invalidateCache(map, pattern) ==
    [key \in {k \in DOMAIN map : ~StrIncludes(k, pattern)} |-> map[key]]

\* lines 53-61: the periodic sweep
SweepCache ==
    /\ cache' = [key \in {k \in DOMAIN cache : ~(now - cache[k].timestamp > maxTtl)}
                   |-> cache[key]]
    /\ cache' # cache
    /\ UNCHANGED <<convDocs, legacySub, legacyFlat, legacyMigrationChecked, flatQueries,
                   interactionCount, aiConfig, now, task, written, bookingVars, fsmVars, extVars, waVars>>

----------------------------------------------------------------------------
(* firebaseService: the conversation store *)

MAX_MESSAGES_PER_CONVERSATION == 100

\* the flat collection queries followed in one run of the process
MaxFlatQueries == 2

Tasks == {1, 2}

NoDoc == [exists |-> FALSE, messages |-> <<>>, messageCount |-> 0]

\* the store calls of a saveConversationExchange call that have resolved
\* (history)
NoOps == [reads |-> 0, writes |-> 0, increments |-> 0]

IdleTask ==
    [pc |-> "idle", op |-> "none", conversationId |-> <<>>, messageLimit |-> 0,
     exchange |-> 0, messages |-> <<>>, snapshot |-> <<>>, context |-> 0,
     cached |-> Null, result |-> Null, fromCache |-> FALSE, failed |-> FALSE,
     remaining |-> <<>>, conversationsDeleted |-> 0, messagesDeleted |-> 0,
     cutoff |-> 0, totalDeleted |-> 0, ops |-> NoOps]

\* the two messages of exchange number n, written at time `at`
UserMessage(n, at) == [role |-> "user", content |-> 2 * n - 1, timestamp |-> at]

ModelMessage(n, at) == [role |-> "model", content |-> 2 * n, timestamp |-> at]

\* Array.prototype.slice(-n)
SliceLast(arr, n) ==
    IF n = 0 \/ n >= Len(arr) THEN arr ELSE SubSeq(arr, Len(arr) - n + 1, Len(arr))

\* a query ordered newest first, limited to n, then reversed (lines 264-276,
\* 288-302), over documents kept oldest first
NewestReversed(docs, n) ==
    IF n >= Len(docs) THEN docs ELSE SubSeq(docs, Len(docs) - n + 1, Len(docs))

\* lines 251-254, 269-274: the history entries handed to the model
FormatHistory(msgs) ==
    [i \in 1..Len(msgs) |-> [role |-> msgs[i].role, text |-> msgs[i].content]]

TaskDone(t, result, fromCache) ==
    task' = [task EXCEPT ![t] = [IdleTask EXCEPT !.pc = "done", !.op = task[t].op,
                                  !.conversationId = task[t].conversationId,
                                  !.messageLimit = task[t].messageLimit,
                                  !.exchange = task[t].exchange,
                                  !.result = result, !.fromCache = fromCache,
                                  !.ops = task[t].ops]]

\* the catch block ran: the error is logged and `result` returned
TaskFailed(t, result) ==
    task' = [task EXCEPT ![t] = [IdleTask EXCEPT !.pc = "done", !.op = task[t].op,
                                  !.conversationId = task[t].conversationId,
                                  !.messageLimit = task[t].messageLimit,
                                  !.exchange = task[t].exchange,
                                  !.result = result, !.failed = TRUE,
                                  !.ops = task[t].ops]]

(* saveConversationExchange, lines 96-140 *)

\* the call starts; its texts are those of exchange number `exchange`
CallAppendExchange(t, conversationId, exchange) ==
    /\ task[t].pc = "idle"
    /\ task' = [task EXCEPT ![t] = [IdleTask EXCEPT !.pc = "appendGetDoc",
                                                    !.op = "append",
                                                    !.conversationId = conversationId,
                                                    !.exchange = exchange]]
    /\ UNCHANGED <<convDocs, legacySub, legacyFlat, legacyMigrationChecked, flatQueries,
                   interactionCount, aiConfig, cache, now, written, bookingVars, fsmVars, extVars, waVars>>

\* mutant: the trim keeping the first entries instead of the last
AppendedMessagesKeepFirst(existing, exchange, at) ==
    LET messages == existing \o <<UserMessage(exchange, at), ModelMessage(exchange, at)>>
    IN IF Len(messages) > MAX_MESSAGES_PER_CONVERSATION
       THEN SubSeq(messages, 1, MAX_MESSAGES_PER_CONVERSATION)
       ELSE messages

\* lines 109-119: push the pair, keep the last MAX_MESSAGES_PER_CONVERSATION
AppendedMessages(existing, exchange, at) ==
    LET messages == existing \o <<UserMessage(exchange, at), ModelMessage(exchange, at)>>
    IN IF Len(messages) > MAX_MESSAGES_PER_CONVERSATION
       THEN SliceLast(messages, MAX_MESSAGES_PER_CONVERSATION)
       ELSE messages

\* mutant: one read per stored message on top of the document's own
AppendGetDocPerMessage(t) ==
    /\ task[t].pc = "appendGetDoc"
    /\ LET safeConversationId == normalizeConversationId(task[t].conversationId)
           existing == IF convDocs[safeConversationId].exists
                       THEN convDocs[safeConversationId].messages ELSE <<>>
       IN task' = [task EXCEPT ![t].pc = "appendSetDoc",
                               ![t].ops.reads = @ + 1 + Len(existing),
                               ![t].messages =
                                   AppendedMessages(existing, task[t].exchange, now)]
    /\ UNCHANGED <<convDocs, legacySub, legacyFlat, legacyMigrationChecked, flatQueries,
                   interactionCount, aiConfig, cache, now, written, bookingVars, fsmVars, extVars, waVars>>

\* lines 102-119: getDoc resolved
AppendGetDoc(t) ==
    /\ task[t].pc = "appendGetDoc"
    /\ LET safeConversationId == normalizeConversationId(task[t].conversationId)
           existing == IF convDocs[safeConversationId].exists
                       THEN convDocs[safeConversationId].messages ELSE <<>>
       IN task' = [task EXCEPT ![t].pc = "appendSetDoc",
                               ![t].ops.reads = @ + 1,
                               ![t].messages =
                                   AppendedMessages(existing, task[t].exchange, now)]
    /\ UNCHANGED <<convDocs, legacySub, legacyFlat, legacyMigrationChecked, flatQueries,
                   interactionCount, aiConfig, cache, now, written, bookingVars, fsmVars, extVars, waVars>>

\* mutant: the write adding the exchange to the array that is stored when it
\* resolves, instead of replacing that array
AppendSetDocMerging(t) ==
    /\ task[t].pc = "appendSetDoc"
    /\ LET safeConversationId == normalizeConversationId(task[t].conversationId)
           merged == AppendedMessages(convDocs[safeConversationId].messages,
                                      task[t].exchange, now)
       IN /\ convDocs' = [convDocs EXCEPT ![safeConversationId] =
                            [exists |-> TRUE, messages |-> merged,
                             messageCount |-> Len(merged)]]
          /\ written' = [written EXCEPT ![safeConversationId] =
                            Append(@, task[t].exchange)]
    /\ task' = [task EXCEPT ![t].pc = "appendStats", ![t].messages = <<>>,
                            ![t].ops.writes = @ + 1]
    /\ UNCHANGED <<legacySub, legacyFlat, legacyMigrationChecked, flatQueries, interactionCount,
                   aiConfig, cache, now, bookingVars, fsmVars, extVars, waVars>>

\* lines 122-129: setDoc resolved
AppendSetDoc(t) ==
    /\ task[t].pc = "appendSetDoc"
    /\ LET safeConversationId == normalizeConversationId(task[t].conversationId)
       IN /\ convDocs' = [convDocs EXCEPT ![safeConversationId] =
                            [exists |-> TRUE, messages |-> task[t].messages,
                             messageCount |-> Len(task[t].messages)]]
          /\ written' = [written EXCEPT ![safeConversationId] =
                            Append(@, task[t].exchange)]
    /\ task' = [task EXCEPT ![t].pc = "appendStats", ![t].messages = <<>>,
                            ![t].ops.writes = @ + 1]
    /\ UNCHANGED <<legacySub, legacyFlat, legacyMigrationChecked, flatQueries, interactionCount,
                   aiConfig, cache, now, bookingVars, fsmVars, extVars, waVars>>

\* lines 131-135: updateUserStats resolved, then the history cache is
\* invalidated.  The increment is applied by the store (increment(1), line
\* 195); when the write is rejected the error is logged (lines 197-199) and
\* nothing is counted
AppendStatsResolved(t, counted) ==
    /\ task[t].pc = "appendStats"
    /\ interactionCount' = IF counted THEN interactionCount + 1 ELSE interactionCount
    /\ cache' = invalidateCache(cache,
                    HistoryInvalidationPattern(UserId,
                        normalizeConversationId(task[t].conversationId)))
    /\ task' = [task EXCEPT ![t] = [IdleTask EXCEPT !.pc = "done", !.op = task[t].op,
                                  !.conversationId = task[t].conversationId,
                                  !.exchange = task[t].exchange,
                                  !.ops = [task[t].ops EXCEPT
                                              !.increments = IF counted THEN @ + 1 ELSE @]]]
    /\ UNCHANGED <<convDocs, legacySub, legacyFlat, legacyMigrationChecked, flatQueries,
                   aiConfig, now, written, bookingVars, fsmVars, extVars, waVars>>

AppendStats(t) == \E counted \in BOOLEAN : AppendStatsResolved(t, counted)

\* lines 137-139: getDoc or setDoc rejected; the error is logged
AppendStoreError(t) ==
    /\ task[t].pc \in {"appendGetDoc", "appendSetDoc"}
    /\ TaskFailed(t, Null)
    /\ UNCHANGED <<convDocs, legacySub, legacyFlat, legacyMigrationChecked, flatQueries,
                   interactionCount, aiConfig, cache, now, written, bookingVars, fsmVars, extVars, waVars>>

(* getConversationHistory, lines 232-311 *)

\* lines 234-236: the cache is consulted before anything is awaited
CallGetConversationHistory(t, conversationId, messageLimit) ==
    /\ task[t].pc = "idle"
    /\ LET cached == getCached(HistoryCacheKey(UserId, conversationId, messageLimit),
                               CACHE_TTL.conversationHistory)
           started == [IdleTask EXCEPT !.op = "history",
                                       !.conversationId = conversationId,
                                       !.messageLimit = messageLimit]
       IN IF cached # Null
          THEN task' = [task EXCEPT ![t] = [started EXCEPT !.pc = "done",
                                                          !.cached = cached,
                                                          !.result = cached,
                                                          !.fromCache = TRUE]]
          ELSE task' = [task EXCEPT ![t] = [started EXCEPT !.pc = "historyGetDoc",
                                                          !.cached = cached]]
    /\ UNCHANGED <<convDocs, legacySub, legacyFlat, legacyMigrationChecked, flatQueries,
                   interactionCount, aiConfig, cache, now, written, bookingVars, fsmVars, extVars, waVars>>

\* lines 245-260: what getConversationHistory does with the document it read
HistoryFromDoc(t, doc) ==
    LET history == FormatHistory(SliceLast(doc.messages, task[t].messageLimit))
        cacheKey == HistoryCacheKey(UserId, task[t].conversationId,
                                    task[t].messageLimit)
    IN IF doc.exists /\ Len(history) > 0
       THEN /\ cache' = setCache(cache, cacheKey, Arr(history))
            /\ TaskDone(t, Arr(history), FALSE)
       ELSE /\ cache' = cache
            /\ task' = [task EXCEPT ![t].pc = "historyLegacySub", ![t].snapshot = <<>>]

\* lines 243-260: the conversation document read, its answer handled at once
HistoryGetDoc(t) ==
    /\ task[t].pc = "historyGetDoc"
    /\ HistoryFromDoc(t, convDocs[normalizeConversationId(task[t].conversationId)])
    /\ UNCHANGED <<convDocs, legacySub, legacyFlat, legacyMigrationChecked, flatQueries,
                   interactionCount, aiConfig, now, written, bookingVars, fsmVars, extVars, waVars>>

\* line 243: the store serves the getDoc; the answer is on its way to the caller
HistoryDocRead(t) ==
    /\ task[t].pc = "historyGetDoc"
    /\ task' = [task EXCEPT ![t].pc = "historyGotDoc",
                            ![t].snapshot =
                                <<convDocs[normalizeConversationId(task[t].conversationId)]>>]
    /\ UNCHANGED <<convDocs, legacySub, legacyFlat, legacyMigrationChecked, flatQueries,
                   interactionCount, aiConfig, cache, now, written, bookingVars, fsmVars,
                   extVars, waVars>>

\* lines 245-260: the answer arrives and the await of line 243 resumes
HistoryDocDelivered(t) ==
    /\ task[t].pc = "historyGotDoc"
    /\ HistoryFromDoc(t, task[t].snapshot[1])
    /\ UNCHANGED <<convDocs, legacySub, legacyFlat, legacyMigrationChecked, flatQueries,
                   interactionCount, aiConfig, now, written, bookingVars, fsmVars, extVars, waVars>>

\* lines 262-285: the legacy subcollection query (newest first, limited,
\* reversed), then the marker check; past it the query of the flat collection
\* is issued (line 289)
HistoryLegacySub(t) ==
    /\ task[t].pc = "historyLegacySub"
    /\ LET msgs == legacySub[normalizeConversationId(task[t].conversationId)]
           result == FormatHistory(NewestReversed(msgs, task[t].messageLimit))
           cacheKey == HistoryCacheKey(UserId, task[t].conversationId,
                                       task[t].messageLimit)
       IN IF msgs # <<>>
          THEN /\ cache' = setCache(cache, cacheKey, Arr(result))
               /\ TaskDone(t, Arr(result), FALSE)
               /\ flatQueries' = flatQueries
          ELSE /\ cache' = cache
               /\ IF UserId \in legacyMigrationChecked
                  THEN TaskDone(t, Arr(<<>>), FALSE) /\ flatQueries' = flatQueries
                  ELSE /\ flatQueries < MaxFlatQueries
                       /\ flatQueries' = flatQueries + 1
                       /\ task' = [task EXCEPT ![t].pc = "historyLegacyFlat"]
    /\ UNCHANGED <<convDocs, legacySub, legacyFlat, legacyMigrationChecked,
                   interactionCount, aiConfig, now, written, bookingVars, fsmVars, extVars, waVars>>

\* lines 287-306: the flat legacy collection, read once per process
HistoryLegacyFlat(t) ==
    /\ task[t].pc = "historyLegacyFlat"
    /\ legacyMigrationChecked' = legacyMigrationChecked \cup {UserId}
    /\ LET result == FormatHistory(NewestReversed(legacyFlat, task[t].messageLimit))
           cacheKey == HistoryCacheKey(UserId, task[t].conversationId,
                                       task[t].messageLimit)
       IN /\ cache' = IF Len(result) > 0 THEN setCache(cache, cacheKey, Arr(result))
                      ELSE cache
          /\ TaskDone(t, Arr(result), FALSE)
    /\ UNCHANGED <<convDocs, legacySub, legacyFlat, flatQueries, interactionCount,
                   aiConfig, now, written, bookingVars, fsmVars, extVars, waVars>>

\* lines 307-310: a store read rejected; the empty history is returned
HistoryStoreError(t) ==
    /\ task[t].pc \in {"historyGetDoc", "historyGotDoc", "historyLegacySub",
                       "historyLegacyFlat"}
    /\ TaskFailed(t, Arr(<<>>))
    /\ UNCHANGED <<convDocs, legacySub, legacyFlat, legacyMigrationChecked, flatQueries,
                   interactionCount, aiConfig, cache, now, written, bookingVars, fsmVars, extVars, waVars>>

\* the caller has its result; the task ends
TaskReturn(t) ==
    /\ task[t].pc = "done"
    /\ task' = [task EXCEPT ![t] = IdleTask]
    /\ UNCHANGED <<convDocs, legacySub, legacyFlat, legacyMigrationChecked, flatQueries,
                   interactionCount, aiConfig, cache, now, written, bookingVars, fsmVars, extVars, waVars>>

(* clearAllConversations, lines 650-717 *)

\* the documents of a collection listing, in the order of their ids:
\* a_b, default, wa_1
InIdOrder(ids) ==
    SelectSeq(<<normalizeConversationId(<<"a", ".", "b">>), DefaultId,
                <<"w", "a", "_", "1">>>>,
              LAMBDA c : c \in ids)

\* what the catch returns (lines 713-716), the error naming the call that
\* was rejected
WipeFailure(call) == Obj([success |-> FALSE, error |-> call])

CallClearAllConversations(t) ==
    /\ task[t].pc = "idle"
    /\ task' = [task EXCEPT ![t] = [IdleTask EXCEPT !.pc = "wipeList", !.op = "wipe"]]
    /\ UNCHANGED <<convDocs, legacySub, legacyFlat, legacyMigrationChecked, flatQueries,
                   interactionCount, aiConfig, cache, now, written, bookingVars, fsmVars,
                   extVars, waVars>>

\* lines 652-653: the conversation documents are listed
WipeList(t) ==
    /\ task[t].pc = "wipeList"
    /\ LET docs == InIdOrder({c \in DOMAIN convDocs : convDocs[c].exists})
       IN task' = [task EXCEPT ![t].remaining = docs,
                               ![t].pc = IF docs = <<>> THEN "wipeLegacy" ELSE "wipeBatch"]
    /\ UNCHANGED <<convDocs, legacySub, legacyFlat, legacyMigrationChecked, flatQueries,
                   interactionCount, aiConfig, cache, now, written, bookingVars, fsmVars,
                   extVars, waVars>>

\* lines 659-680: the messages under the conversation are listed, counted and
\* deleted in one batch (there are fewer than 450)
WipeBatch(t) ==
    /\ task[t].pc = "wipeBatch"
    /\ LET c == task[t].remaining[1]
       IN /\ legacySub' = [legacySub EXCEPT ![c] = <<>>]
          /\ task' = [task EXCEPT ![t].pc = "wipeDoc",
                                  ![t].messagesDeleted = @ + Len(legacySub[c])]
    /\ UNCHANGED <<convDocs, legacyFlat, legacyMigrationChecked, flatQueries, interactionCount,
                   aiConfig, cache, now, written, bookingVars, fsmVars, extVars, waVars>>

\* lines 682-685: the conversation document is deleted; the loop goes on
WipeDoc(t) ==
    /\ task[t].pc = "wipeDoc"
    /\ LET c == task[t].remaining[1]
       IN /\ convDocs' = [convDocs EXCEPT ![c] = NoDoc]
          /\ written' = [written EXCEPT ![c] = <<>>]
    /\ task' = [task EXCEPT ![t].remaining = Tail(@),
                            ![t].conversationsDeleted = @ + 1,
                            ![t].pc = IF Len(task[t].remaining) = 1 THEN "wipeLegacy"
                                      ELSE "wipeBatch"]
    /\ UNCHANGED <<legacySub, legacyFlat, legacyMigrationChecked, flatQueries, interactionCount,
                   aiConfig, cache, now, bookingVars, fsmVars, extVars, waVars>>

\* lines 687-712: the flat legacy collection is listed and deleted, the
\* counts are returned
WipeLegacy(t) ==
    /\ task[t].pc = "wipeLegacy"
    /\ legacyFlat' = <<>>
    /\ TaskDone(t, Obj([success |-> TRUE,
                        conversations |-> task[t].conversationsDeleted,
                        messages |-> task[t].messagesDeleted + Len(legacyFlat)]),
                FALSE)
    /\ UNCHANGED <<convDocs, legacySub, legacyMigrationChecked, flatQueries, interactionCount,
                   aiConfig, cache, now, written, bookingVars, fsmVars, extVars, waVars>>

\* lines 713-716: a store call of the wipe is rejected; the one catch around
\* the whole function returns the failure
WipeStoreError(t) ==
    /\ task[t].pc \in {"wipeList", "wipeBatch", "wipeDoc", "wipeLegacy"}
    /\ TaskFailed(t, WipeFailure(task[t].pc))
    /\ UNCHANGED <<convDocs, legacySub, legacyFlat, legacyMigrationChecked, flatQueries,
                   interactionCount, aiConfig, cache, now, written, bookingVars, fsmVars,
                   extVars, waVars>>

(* cleanupOldMessages, lines 729-835 *)

\* line 720
MESSAGE_RETENTION_DAYS == 2

DayMs == 24 * 60 * 60 * 1000

\* mutant: a message written exactly at the cutoff is dropped too
KeptMessagesAfter(messages, cutoff) ==
    SelectSeq(messages, LAMBDA msg : msg.timestamp > cutoff)

\* lines 746-750: the messages newer than the cutoff, or without a timestamp
KeptMessages(messages, cutoff) ==
    SelectSeq(messages, LAMBDA msg : msg.timestamp >= cutoff)

\* lines 767-773, 796-801: the legacy documents older than the cutoff
OldMessages(messages, cutoff) ==
    SelectSeq(messages, LAMBDA msg : msg.timestamp < cutoff)

\* lines 742-756: where the loop over the listed conversations stands next:
\* the rewrite of the head's array when the filter dropped something, else
\* its legacy subcollection, and the flat collection after the last one
CleanupNext(remaining, snapshot, cutoff) ==
    IF remaining = <<>> THEN "cleanupFlatQuery"
    ELSE LET messages == snapshot[remaining[1]].messages
         IN IF Len(messages) > 0 /\ Len(KeptMessages(messages, cutoff)) < Len(messages)
            THEN "cleanupUpdateDoc"
            ELSE "cleanupSubQuery"

\* lines 731-734: the cutoff is taken when the call starts
CallCleanupOldMessages(t) ==
    /\ task[t].pc = "idle"
    /\ task' = [task EXCEPT ![t] = [IdleTask EXCEPT !.pc = "cleanupList", !.op = "cleanup",
                                                    !.cutoff =
                                                        now - MESSAGE_RETENTION_DAYS * DayMs]]
    /\ UNCHANGED <<convDocs, legacySub, legacyFlat, legacyMigrationChecked, flatQueries,
                   interactionCount, aiConfig, cache, now, written, bookingVars, fsmVars,
                   extVars, waVars>>

\* lines 738-741: the conversation documents are read, all in one snapshot
CleanupList(t) ==
    /\ task[t].pc = "cleanupList"
    /\ LET ids == {c \in DOMAIN convDocs : convDocs[c].exists}
           snapshot == [c \in ids |-> convDocs[c]]
       IN task' = [task EXCEPT ![t].snapshot = snapshot,
                               ![t].remaining = InIdOrder(ids),
                               ![t].pc = CleanupNext(InIdOrder(ids), snapshot,
                                                     task[t].cutoff)]
    /\ UNCHANGED <<convDocs, legacySub, legacyFlat, legacyMigrationChecked, flatQueries,
                   interactionCount, aiConfig, cache, now, written, bookingVars, fsmVars,
                   extVars, waVars>>

\* lines 745-762: updateDoc resolved: the array of the document is replaced by
\* the filtered array of the snapshot; updateDoc rejects for a missing document
CleanupUpdateDoc(t) ==
    /\ task[t].pc = "cleanupUpdateDoc"
    /\ LET c == task[t].remaining[1]
           original == task[t].snapshot[c].messages
           filteredMessages == KeptMessages(original, task[t].cutoff)
       IN IF convDocs[c].exists
          THEN /\ convDocs' = [convDocs EXCEPT ![c].messages = filteredMessages,
                                               ![c].messageCount = Len(filteredMessages)]
               /\ task' = [task EXCEPT ![t].pc = "cleanupSubQuery",
                                       ![t].totalDeleted =
                                           @ + Len(original) - Len(filteredMessages)]
          ELSE /\ convDocs' = convDocs
               /\ TaskFailed(t, Obj([success |-> FALSE]))
    /\ UNCHANGED <<legacySub, legacyFlat, legacyMigrationChecked, flatQueries,
                   interactionCount, aiConfig, cache, now, written, bookingVars, fsmVars,
                   extVars, waVars>>

\* lines 766-775: the old messages of the legacy subcollection are queried
CleanupSubQuery(t) ==
    /\ task[t].pc = "cleanupSubQuery"
    /\ LET c == task[t].remaining[1]
           old == OldMessages(legacySub[c], task[t].cutoff)
       IN IF old = <<>>
          THEN task' = [task EXCEPT ![t].remaining = Tail(@),
                                    ![t].pc = CleanupNext(Tail(task[t].remaining),
                                                          task[t].snapshot,
                                                          task[t].cutoff)]
          ELSE task' = [task EXCEPT ![t].messages = old, ![t].pc = "cleanupSubCommit"]
    /\ UNCHANGED <<convDocs, legacySub, legacyFlat, legacyMigrationChecked, flatQueries,
                   interactionCount, aiConfig, cache, now, written, bookingVars, fsmVars,
                   extVars, waVars>>

\* lines 776-792: the batch of deletes committed (there are fewer than 450)
CleanupSubCommit(t) ==
    /\ task[t].pc = "cleanupSubCommit"
    /\ LET c == task[t].remaining[1]
       IN legacySub' = [legacySub EXCEPT ![c] =
                           SelectSeq(@, LAMBDA msg : ~Includes(task[t].messages, msg))]
    /\ task' = [task EXCEPT ![t].messages = <<>>,
                            ![t].totalDeleted = @ + Len(task[t].messages),
                            ![t].remaining = Tail(@),
                            ![t].pc = CleanupNext(Tail(task[t].remaining),
                                                  task[t].snapshot, task[t].cutoff)]
    /\ UNCHANGED <<convDocs, legacyFlat, legacyMigrationChecked, flatQueries,
                   interactionCount, aiConfig, cache, now, written, bookingVars, fsmVars,
                   extVars, waVars>>

\* what the call returns when every store call succeeded (line 831)
CleanupDone(t, deleted) == TaskDone(t, Obj([success |-> TRUE, deleted |-> deleted]), FALSE)

\* lines 795-802: the old messages of the flat legacy collection are queried
CleanupFlatQuery(t) ==
    /\ task[t].pc = "cleanupFlatQuery"
    /\ LET old == OldMessages(legacyFlat, task[t].cutoff)
       IN IF old = <<>>
          THEN CleanupDone(t, task[t].totalDeleted)
          ELSE task' = [task EXCEPT ![t].messages = old, ![t].pc = "cleanupFlatCommit"]
    /\ UNCHANGED <<convDocs, legacySub, legacyFlat, legacyMigrationChecked, flatQueries,
                   interactionCount, aiConfig, cache, now, written, bookingVars, fsmVars,
                   extVars, waVars>>

\* lines 803-831: the batch of deletes committed, the count returned
CleanupFlatCommit(t) ==
    /\ task[t].pc = "cleanupFlatCommit"
    /\ legacyFlat' = SelectSeq(legacyFlat, LAMBDA msg : ~Includes(task[t].messages, msg))
    /\ CleanupDone(t, task[t].totalDeleted + Len(task[t].messages))
    /\ UNCHANGED <<convDocs, legacySub, legacyMigrationChecked, flatQueries,
                   interactionCount, aiConfig, cache, now, written, bookingVars, fsmVars,
                   extVars, waVars>>

\* lines 832-835: a store call of the purge is rejected; the catch returns
\* the failure
CleanupStoreError(t) ==
    /\ task[t].pc \in {"cleanupList", "cleanupUpdateDoc", "cleanupSubQuery",
                       "cleanupSubCommit", "cleanupFlatQuery", "cleanupFlatCommit"}
    /\ TaskFailed(t, Obj([success |-> FALSE]))
    /\ UNCHANGED <<convDocs, legacySub, legacyFlat, legacyMigrationChecked, flatQueries,
                   interactionCount, aiConfig, cache, now, written, bookingVars, fsmVars,
                   extVars, waVars>>

\* Date.now() moves on to a later instant of the set
Advance(times) ==
    /\ \E later \in times : later > now /\ now' = later
    /\ UNCHANGED <<convDocs, legacySub, legacyFlat, legacyMigrationChecked, flatQueries,
                   interactionCount, aiConfig, cache, task, written, bookingVars, fsmVars, extVars, waVars>>

(* getAISettings, lines 378-414, and updateAISettings, lines 416-432 *)

CallGetAISettings(t) ==
    /\ task[t].pc = "idle"
    /\ LET cached == getCached(AISettingsCacheKey(UserId), CACHE_TTL.aiSettings)
           started == [IdleTask EXCEPT !.op = "aiSettings", !.cached = cached]
       IN IF cached # Null
          THEN task' = [task EXCEPT ![t] = [started EXCEPT !.pc = "done",
                                                          !.result = cached,
                                                          !.fromCache = TRUE]]
          ELSE task' = [task EXCEPT ![t] = [started EXCEPT !.pc = "aiGetDoc"]]
    /\ UNCHANGED <<convDocs, legacySub, legacyFlat, legacyMigrationChecked, flatQueries,
                   interactionCount, aiConfig, cache, now, written, bookingVars, fsmVars, extVars, waVars>>

\* lines 385-390: the ai_config document read; its absence is cached as null
AIGetDoc(t) ==
    /\ task[t].pc = "aiGetDoc"
    /\ IF aiConfig = <<>>
       THEN /\ cache' = setCache(cache, AISettingsCacheKey(UserId), Null)
            /\ TaskDone(t, Null, FALSE)
       ELSE /\ cache' = cache
            /\ task' = [task EXCEPT ![t].pc = "aiGetFiles", ![t].snapshot = aiConfig]
    /\ UNCHANGED <<convDocs, legacySub, legacyFlat, legacyMigrationChecked, flatQueries,
                   interactionCount, aiConfig, now, written, bookingVars, fsmVars, extVars, waVars>>

\* lines 392-409: the files read; the merged settings are cached
AIGetFiles(t) ==
    /\ task[t].pc = "aiGetFiles"
    /\ LET result == Obj(task[t].snapshot[1])
       IN /\ cache' = setCache(cache, AISettingsCacheKey(UserId), result)
          /\ TaskDone(t, result, FALSE)
    /\ UNCHANGED <<convDocs, legacySub, legacyFlat, legacyMigrationChecked, flatQueries,
                   interactionCount, aiConfig, now, written, bookingVars, fsmVars, extVars, waVars>>

\* lines 410-413: a read rejected; null is returned
AIStoreError(t) ==
    /\ task[t].pc \in {"aiGetDoc", "aiGetFiles"}
    /\ TaskFailed(t, Null)
    /\ UNCHANGED <<convDocs, legacySub, legacyFlat, legacyMigrationChecked, flatQueries,
                   interactionCount, aiConfig, cache, now, written, bookingVars, fsmVars, extVars, waVars>>

CallUpdateAISettings(t, context) ==
    /\ task[t].pc = "idle"
    /\ task' = [task EXCEPT ![t] = [IdleTask EXCEPT !.pc = "aiSetDoc",
                                                    !.op = "updateAISettings",
                                                    !.context = context]]
    /\ UNCHANGED <<convDocs, legacySub, legacyFlat, legacyMigrationChecked, flatQueries,
                   interactionCount, aiConfig, cache, now, written, bookingVars, fsmVars, extVars, waVars>>

\* lines 418-427: setDoc resolved, then the cached settings are invalidated
AISetDoc(t) ==
    /\ task[t].pc = "aiSetDoc"
    /\ aiConfig' = <<task[t].context>>
    /\ cache' = invalidateCache(cache, AISettingsCacheKey(UserId))
    /\ TaskDone(t, Null, FALSE)
    /\ UNCHANGED <<convDocs, legacySub, legacyFlat, legacyMigrationChecked, flatQueries,
                   interactionCount, now, written, bookingVars, fsmVars, extVars, waVars>>

----------------------------------------------------------------------------
(* bookingStateManager.js *)

BOOKING_STEPS ==
    [IDLE |-> "idle", AWAITING_REASON |-> "awaiting_reason",
     AWAITING_DATE |-> "awaiting_date", AWAITING_SLOT |-> "awaiting_slot",
     AWAITING_NAME |-> "awaiting_name", AWAITING_CONFIRM |-> "awaiting_confirm"]

JsNull == "<null>"

\* a value that counts as true in a condition
Truthy(value) == value \notin {JsNull, ""}

\* object spread {...base, ...patch}
Spread(base, patch) == patch @@ base

\* lines 24-26
getState(phone) ==
    IF phone \in DOMAIN bookingStates THEN bookingStates[phone]
    ELSE [step |-> BOOKING_STEPS.IDLE]

\* lines 31-37
setState(phone, state) ==
    (phone :> Spread(Spread(getState(phone), state), [updatedAt |-> now]))
        @@ bookingStates

\* mutant: the start step chosen from the name instead of the reason
startStepFromName(reason, name) ==
    IF Truthy(name) THEN BOOKING_STEPS.AWAITING_DATE ELSE BOOKING_STEPS.AWAITING_REASON

\* lines 62-70
startStep(reason, name) ==
    IF Truthy(reason) /\ Truthy(name) THEN BOOKING_STEPS.AWAITING_DATE
    ELSE IF Truthy(reason) THEN BOOKING_STEPS.AWAITING_DATE
    ELSE BOOKING_STEPS.AWAITING_REASON

\* The record of the calls made on a key: stage 1 after startBooking,
\* 2, 3, 4 after setDate, setTimeSlot, setName made in that order, 5 after
\* clearState, 0 after anything else; with the arguments the calls were
\* given, and whether startBooking found a date or slot already collected.
OffTrack == [stage |-> 0, reason |-> JsNull, startName |-> JsNull, date |-> JsNull,
             timeSlot |-> JsNull, name |-> JsNull, restarted |-> FALSE]

Cleared == [OffTrack EXCEPT !.stage = 5]

Follow(phone, stage, field, value) ==
    flow' = [flow EXCEPT ![phone] =
                IF flow[phone].stage = stage - 1
                THEN [flow[phone] EXCEPT !.stage = stage, ![field] = value]
                ELSE OffTrack]

HasField(state, field) == field \in DOMAIN state /\ state[field] # JsNull

\* lines 60-82
startBooking(phone, reason, name) ==
    /\ bookingStates' = setState(phone,
            [step |-> startStep(reason, name), reason |-> reason, date |-> JsNull,
             timeSlot |-> JsNull, name |-> name, startedAt |-> now])
    /\ flow' = [flow EXCEPT ![phone] =
                    [OffTrack EXCEPT !.stage = 1, !.reason = reason,
                                     !.startName = name, !.name = name,
                                     !.restarted = HasField(getState(phone), "date")
                                                   \/ HasField(getState(phone), "timeSlot")]]
    /\ UNCHANGED <<bookingVars, convVars, extVars>>

\* mutant: setDate that also forgets the reason
setDateDroppingReason(phone, date) ==
    /\ bookingStates' = setState(phone,
            [step |-> BOOKING_STEPS.AWAITING_SLOT, date |-> date, reason |-> JsNull])
    /\ Follow(phone, 2, "date", date)
    /\ UNCHANGED <<bookingVars, convVars, extVars>>

\* lines 87-93
setDate(phone, date) ==
    /\ bookingStates' = setState(phone,
            [step |-> BOOKING_STEPS.AWAITING_SLOT, date |-> date])
    /\ Follow(phone, 2, "date", date)
    /\ UNCHANGED <<bookingVars, convVars, extVars>>

\* lines 98-104
setTimeSlot(phone, timeSlot) ==
    /\ bookingStates' = setState(phone,
            [step |-> BOOKING_STEPS.AWAITING_NAME, timeSlot |-> timeSlot])
    /\ Follow(phone, 3, "timeSlot", timeSlot)
    /\ UNCHANGED <<bookingVars, convVars, extVars>>

\* lines 109-115
setName(phone, name) ==
    /\ bookingStates' = setState(phone,
            [step |-> BOOKING_STEPS.AWAITING_CONFIRM, name |-> name])
    /\ Follow(phone, 4, "name", name)
    /\ UNCHANGED <<bookingVars, convVars, extVars>>

\* lines 50-52
clearState(phone) ==
    /\ bookingStates' = [k \in DOMAIN bookingStates \ {phone} |-> bookingStates[k]]
    /\ flow' = [flow EXCEPT ![phone] = Cleared]
    /\ UNCHANGED <<bookingVars, convVars, extVars>>

\* mutant: a state updated exactly 30 minutes ago is swept too
cleanupStaleStatesInclusive ==
    LET thirtyMinutesAgo == now - 30 * 60 * 1000
        stale == {k \in DOMAIN bookingStates :
                    bookingStates[k].updatedAt <= thirtyMinutesAgo}
    IN /\ stale # {}
       /\ bookingStates' = [k \in DOMAIN bookingStates \ stale |-> bookingStates[k]]
       /\ flow' = [k \in DOMAIN flow |-> IF k \in stale THEN OffTrack ELSE flow[k]]
       /\ UNCHANGED <<bookingVars, convVars, extVars>>

\* lines 157-164: the sweep of states not updated for 30 minutes
cleanupStaleStates ==
    LET thirtyMinutesAgo == now - 30 * 60 * 1000
        stale == {k \in DOMAIN bookingStates :
                    bookingStates[k].updatedAt < thirtyMinutesAgo}
    IN /\ stale # {}
       /\ bookingStates' = [k \in DOMAIN bookingStates \ stale |-> bookingStates[k]]
       /\ flow' = [k \in DOMAIN flow |-> IF k \in stale THEN OffTrack ELSE flow[k]]
       /\ UNCHANGED <<bookingVars, convVars, extVars>>

----------------------------------------------------------------------------
(* knowledgeService.js, with embeddingService.processText.  A text is given
   as the list of chunk contents chunkText cuts it into; chunk i of the list
   has index i - 1. *)

\* encodeURIComponent on the characters the sources use
EncodeChar(c) ==
    CASE c = " " -> <<"%", "2", "0">>
      [] c = "/" -> <<"%", "2", "F">>
      [] c = "%" -> <<"%", "2", "5">>
      [] OTHER -> <<c>>

RECURSIVE encodeURIComponent(_)
encodeURIComponent(str) ==
    IF str = <<>> THEN <<>>
    ELSE EncodeChar(Head(str)) \o encodeURIComponent(Tail(str))

\* the first ten hex digits of the SHA-1 of a chunk content
Sha1Prefix(content) ==
    CASE content = "Opening hours are 9 to 5." -> <<"3", "f", "a", "0", "c", "1", "9", "e", "7", "b">>
      [] content = "We repair laptops." -> <<"a", "1", "4", "4", "d", "0", "2", "c", "5", "5">>
      [] content = "Call us for prices." -> <<"0", "b", "e", "9", "9", "6", "f", "3", "1", "d">>

\* lines 155-158
getChunkDocId(source, index, content) ==
    encodeURIComponent(source) \o <<"_", "_">> \o NumberToString(index)
        \o <<"_", "_">> \o Sha1Prefix(content)

IdleKcall ==
    [pc |-> "idle", op |-> "none", text |-> <<>>, source |-> <<>>, category |-> "",
     chunks |-> {}, result |-> [success |-> FALSE, chunksAdded |-> 0, error |-> ""]]

\* lines 44-50; a cache key is userId ":" hash
invalidateUserRagCache(userId) ==
    SelectSeq(ragCache, LAMBDA entry : entry.key.userId # userId)

\* mutant: a write that always creates a document
SetMergeAlwaysNew(docs, id, data) == Append(docs, data @@ [id |-> id, writes |-> 1])

\* batch.set(ref, data, {merge: true}) on the knowledge collection: the
\* document with that id takes the fields, a new one is created if none has
\* it; `writes` counts the writes a document has received
SetMerge(docs, id, data) ==
    IF \E i \in 1..Len(docs) : docs[i].id = id
    THEN [i \in 1..Len(docs) |->
            IF docs[i].id = id
            THEN data @@ [docs[i] EXCEPT !.writes = @ + 1]
            ELSE docs[i]]
    ELSE Append(docs, data @@ [id |-> id, writes |-> 1])

\* the chunk documents written for the chunks of kcall that were embedded
ChunkData(i) ==
    [content |-> kcall.text[i], source |-> kcall.source, category |-> kcall.category,
     index |-> i - 1]

RECURSIVE WriteChunks(_, _)
WriteChunks(docs, chunks) ==
    IF chunks = {} THEN docs
    ELSE LET i == CHOOSE c \in chunks : \A d \in chunks : c <= d
         IN WriteChunks(SetMerge(docs, getChunkDocId(kcall.source, i - 1, kcall.text[i]),
                                 ChunkData(i)),
                        chunks \ {i})

KnowledgeError(message) ==
    [success |-> FALSE, chunksAdded |-> 0, error |-> message]

\* mutant: the credential failure is flagged and logged, the handle is kept
disableRagKeepingHandle ==
    /\ adminDb' = adminDb
    /\ isCredentialFailureDisabled' = TRUE
    /\ warnings' = IF isCredentialFailureDisabled THEN warnings ELSE warnings + 1

\* lines 108-114
disableRagOnCredentialFailure ==
    /\ adminDb' = FALSE
    /\ isCredentialFailureDisabled' = TRUE
    /\ warnings' = IF isCredentialFailureDisabled THEN warnings ELSE warnings + 1

\* lines 186-190
CallAddKnowledge(text, source, category) ==
    /\ kcall.pc = "idle"
    /\ LET started == [IdleKcall EXCEPT !.op = "addKnowledge", !.text = text,
                                        !.source = source, !.category = category]
       IN kcall' = IF adminDb THEN [started EXCEPT !.pc = "processText"]
                   ELSE [started EXCEPT !.pc = "done",
                            !.result = KnowledgeError("Knowledge service not initialized")]
    /\ UNCHANGED <<knowledge, knowledgeSources, ragCache, adminDb,
                   isCredentialFailureDisabled, ksearch, warnings, coreVars, waVars,
                   sessVars, aiVars>>

\* line 193, part_000 96-113: processText resolved; the chunks whose embedding
\* call failed are logged and left out
ProcessTextStep ==
    /\ kcall.pc = "processText"
    /\ \E embedded \in SUBSET (1..Len(kcall.text)) :
          kcall' = [kcall EXCEPT !.pc = "commit", !.chunks = embedded]
    /\ UNCHANGED <<knowledge, knowledgeSources, ragCache, adminDb,
                   isCredentialFailureDisabled, ksearch, warnings, coreVars, waVars,
                   sessVars, aiVars>>

\* lines 195-236: the batch of chunk writes and the source write committed,
\* then the tenant's cached search results are dropped
CommitStep ==
    /\ kcall.pc = "commit"
    /\ knowledge' = WriteChunks(knowledge, kcall.chunks)
    /\ knowledgeSources' =
          (encodeURIComponent(kcall.source) :>
              [source |-> kcall.source, category |-> kcall.category,
               chunks |-> Cardinality(kcall.chunks)]) @@ knowledgeSources
    /\ ragCache' = invalidateUserRagCache(UserId)
    /\ kcall' = [kcall EXCEPT !.pc = "done", !.chunks = {},
                    !.result = [success |-> TRUE,
                                chunksAdded |-> Cardinality(kcall.chunks),
                                error |-> ""]]
    /\ UNCHANGED <<adminDb, isCredentialFailureDisabled, ksearch, warnings, coreVars, waVars,
                   sessVars, aiVars>>

\* lines 237-245, 108-114: the commit rejected, with a credential error or
\* with another one
CommitError(credential) ==
    /\ kcall.pc = "commit"
    /\ IF credential
       THEN /\ disableRagOnCredentialFailure
            /\ kcall' = [kcall EXCEPT !.pc = "done", !.chunks = {},
                  !.result = KnowledgeError("Knowledge service credentials are not configured")]
       ELSE /\ UNCHANGED <<adminDb, isCredentialFailureDisabled, warnings>>
            /\ kcall' = [kcall EXCEPT !.pc = "done", !.chunks = {},
                            !.result = KnowledgeError("error.message")]
    /\ UNCHANGED <<knowledge, knowledgeSources, ragCache, ksearch, coreVars, waVars, sessVars,
                   aiVars>>

KnowledgeReturn ==
    /\ kcall.pc = "done"
    /\ kcall' = IdleKcall
    /\ UNCHANGED <<knowledge, knowledgeSources, ragCache, adminDb,
                   isCredentialFailureDisabled, ksearch, warnings, coreVars, waVars,
                   sessVars, aiVars>>

----------------------------------------------------------------------------
(* knowledgeService.js: searchKnowledge and the cache of its results.  The
   ragCache Map is the list of its entries in the order of the Map's keys. *)

RAG_CACHE_TTL == 300000

MAX_CACHE_SIZE == 100

\* the query texts searched for, without a limit
Queries == {"Opening hours", "opening  hours", "price list"}

\* line 323: the text the key is made of, with the categories and the chunk
\* limit of detectRelevantCategories (lines 288-310)
KeyText(queryText) ==
    CASE queryText = "Opening hours" -> "Opening hours:general:1"
      [] queryText = "opening  hours" -> "opening  hours:general:1"
      [] queryText = "price list" -> "price list:general,product:1"

\* line 23: lower case, trimmed, runs of white space made one space
NormalizedQuery(text) ==
    CASE text = "Opening hours:general:1" -> "opening hours:general:1"
      [] text = "opening  hours:general:1" -> "opening hours:general:1"
      [] text = "price list:general,product:1" -> "price list:general,product:1"

\* line 24: the first twelve hex digits of the MD5 of the normalised text
Md5Prefix(normalized) ==
    CASE normalized = "opening hours:general:1" -> "719073425725"
      [] normalized = "price list:general,product:1" -> "2e00f9886f97"

\* lines 21-25
getCacheKey(userId, query) == [userId |-> userId, hash |-> Md5Prefix(NormalizedQuery(query))]

\* where the Map holds the key
RagPositions(key) == {i \in 1..Len(ragCache) : ragCache[i].key = key}

\* lines 27-33: <<data>> for an entry younger than the time-to-live, else <<>>
getCachedRag(key) ==
    IF \E i \in RagPositions(key) : now - ragCache[i].timestamp < RAG_CACHE_TTL
    THEN <<ragCache[CHOOSE i \in RagPositions(key) : TRUE].data>>
    ELSE <<>>

\* Map.set: the value of a key the Map holds is replaced where it stands, a
\* new key is added at the end
MapSet(entries, entry) ==
    IF \E i \in 1..Len(entries) : entries[i].key = entry.key
    THEN [i \in 1..Len(entries) |->
            IF entries[i].key = entry.key THEN entry ELSE entries[i]]
    ELSE Append(entries, entry)

\* mutant: a full cache evicts nothing
setCachedRagUnbounded(key, data) ==
    MapSet(ragCache, [key |-> key, data |-> data, timestamp |-> now])

\* lines 35-42
setCachedRag(key, data) ==
    LET kept == IF Len(ragCache) >= MAX_CACHE_SIZE THEN Tail(ragCache) ELSE ragCache
    IN MapSet(kept, [key |-> key, data |-> data, timestamp |-> now])

IdleKsearch ==
    [pc |-> "idle", queryText |-> "", result |-> <<>>, embedded |-> FALSE,
     searched |-> FALSE, fromCache |-> FALSE]

SearchDone(result) == [ksearch EXCEPT !.pc = "done", !.result = result]

\* lines 312-329: searchKnowledge(userId, queryText) up to the cache lookup
CallSearchKnowledge(queryText) ==
    /\ ksearch.pc = "idle"
    /\ LET started == [IdleKsearch EXCEPT !.queryText = queryText]
           cached == getCachedRag(getCacheKey(UserId, KeyText(queryText)))
       IN ksearch' =
             IF ~adminDb THEN [started EXCEPT !.pc = "done"]
             ELSE IF cached # <<>>
             THEN [started EXCEPT !.pc = "done", !.result = cached[1], !.fromCache = TRUE]
             ELSE [started EXCEPT !.pc = "embedding", !.embedded = TRUE]
    /\ UNCHANGED <<knowledge, knowledgeSources, ragCache, adminDb,
                   isCredentialFailureDisabled, kcall, warnings, coreVars, waVars,
                   sessVars, aiVars>>

\* lines 335-347: generateEmbedding resolved and the vector query is sent;
\* without a handle (line 340) the TypeError is caught at line 383
EmbeddingResolved ==
    /\ ksearch.pc = "embedding"
    /\ ksearch' = IF adminDb THEN [ksearch EXCEPT !.pc = "findNearest", !.searched = TRUE]
                  ELSE SearchDone(<<>>)
    /\ UNCHANGED <<knowledge, knowledgeSources, ragCache, adminDb,
                   isCredentialFailureDisabled, kcall, warnings, coreVars, waVars,
                   sessVars, aiVars>>

\* the chunks a vector query may give with a chunk limit of one: none, or
\* one that is stored
NearestChunks ==
    {<<>>} \cup {<<[content |-> knowledge[i].content, source |-> knowledge[i].source,
                    category |-> knowledge[i].category]>> : i \in 1..Len(knowledge)}

\* lines 348-381: the vector query resolved, its chunks are cached and returned
FindNearestResolved(limitedChunks) ==
    /\ ksearch.pc = "findNearest"
    /\ ragCache' = setCachedRag(getCacheKey(UserId, KeyText(ksearch.queryText)),
                                limitedChunks)
    /\ ksearch' = SearchDone(limitedChunks)
    /\ UNCHANGED <<knowledge, knowledgeSources, adminDb, isCredentialFailureDisabled, kcall,
                   warnings, coreVars, waVars, sessVars, aiVars>>

\* lines 382-390: generateEmbedding or the vector query rejected, with a
\* credential error or with another one
SearchRejected(credential) ==
    /\ ksearch.pc \in {"embedding", "findNearest"}
    /\ IF credential THEN disableRagOnCredentialFailure
       ELSE UNCHANGED <<adminDb, isCredentialFailureDisabled, warnings>>
    /\ ksearch' = SearchDone(<<>>)
    /\ UNCHANGED <<knowledge, knowledgeSources, ragCache, kcall, coreVars, waVars, sessVars,
                   aiVars>>

SearchReturn ==
    /\ ksearch.pc = "done"
    /\ ksearch' = IdleKsearch
    /\ UNCHANGED <<knowledge, knowledgeSources, ragCache, adminDb,
                   isCredentialFailureDisabled, kcall, warnings, coreVars, waVars,
                   sessVars, aiVars>>

----------------------------------------------------------------------------
(* whatsappService.js: processMessage and the booking handlers it calls.  A
   message content is given as the list of its parts: the action prefix it
   starts with and what follows the prefix, or the text alone.  The socket
   delivers what it is given; the calls into consultantService and aiService
   answer as those services can. *)

StartsWith(content, prefix) == Len(content) = 2 /\ content[1] = prefix

\* bookingStateManager.js lines 120-127
isBookingAction(buttonId) ==
    \/ StartsWith(buttonId, "date_")
    \/ StartsWith(buttonId, "slot_")
    \/ StartsWith(buttonId, "confirm_")
    \/ StartsWith(buttonId, "cancel_")
    \/ StartsWith(buttonId, "more_dates_")

\* bookingStateManager.js lines 132-152
parseButtonAction(buttonId) ==
    IF StartsWith(buttonId, "date_") THEN [type |-> "date", value |-> buttonId[2]]
    ELSE IF StartsWith(buttonId, "slot_") THEN [type |-> "slot", value |-> buttonId[2]]
    ELSE IF StartsWith(buttonId, "confirm_")
         THEN [type |-> "confirm", value |-> buttonId[2]]
    ELSE IF StartsWith(buttonId, "cancel_") THEN [type |-> "cancel", value |-> "true"]
    ELSE IF StartsWith(buttonId, "more_dates_")
         THEN [type |-> "more_dates", value |-> buttonId[2]]
    ELSE [type |-> JsNull, value |-> JsNull]

DateButton == <<"date_", "2026-02-11">>

SlotButton == <<"slot_", "09:00">>

ConfirmButton == <<"confirm_", "yes">>

CancelButton == <<"cancel_", "booking">>

MoreDatesButton == <<"more_dates_", "1">>

ShortText == <<"hi">>

LongText == <<"Aflah">>

Contents == {DateButton, SlotButton, ConfirmButton, CancelButton, MoreDatesButton,
             ShortText, LongText}

\* the content as the text the handlers trim and store
TextOf(content) == IF Len(content) = 2 THEN "more_dates_1" ELSE content[1]

\* text.trim().length
TrimmedLength(text) == IF text = "hi" THEN 2 ELSE IF text = "Aflah" THEN 5 ELSE 12

\* a field of a dialogue state, null when the state has none
Field(state, name) == IF name \in DOMAIN state THEN state[name] ELSE JsNull

\* What generateResponse resolves to: a text, with or without one marker.
\* aiService.js lines 198-560: every failure inside it ends in a fallback
\* sentence, which is a text without a marker.
NoResponse == [text |-> "", marker |-> JsNull, action |-> JsNull]

Responses ==
    {[text |-> t, marker |-> m, action |-> a] :
        t \in {"", "Sure."}, m \in {"BOOKING"}, a \in {"dates", "start"}}
    \cup {[text |-> "Sure.", marker |-> "BUTTONS", action |-> JsNull],
          [text |-> "Sure.", marker |-> JsNull, action |-> JsNull],
          [text |-> "I'm having trouble processing your request right now.",
           marker |-> JsNull, action |-> JsNull]}

IdleHandler ==
    [pc |-> "idle", key |-> "", content |-> <<>>, sent |-> 0, step |-> JsNull,
     generated |-> FALSE, response |-> NoResponse, created |-> FALSE,
     threw |-> FALSE]

\* sock.sendMessage / sendButtonMessage: one more message to the counterparty
Sent(h) == [h EXCEPT !.sent = h.sent + 1]

\* the handler returns
Over(h) == [h EXCEPT !.pc = "done"]

\* lines 214-229: a message with content arrives; it is marked read
ProcessMessage(key, content) ==
    /\ handler.pc \in {"idle", "done"}
    /\ content # <<>>
    /\ handler' = [IdleHandler EXCEPT !.pc = "route", !.key = key, !.content = content]
    /\ UNCHANGED <<coreVars, extVars>>

\* lines 249-250, 121-124: a date_ action
ButtonDate ==
    /\ handler.pc = "route"
    /\ isBookingAction(handler.content)
    /\ parseButtonAction(handler.content).type = "date"
    /\ setDate(handler.key, parseButtonAction(handler.content).value)
    /\ handler' = [handler EXCEPT !.pc = "slots", !.step = getState(handler.key).step]

\* lines 126-132: a slot_ action
ButtonSlot ==
    /\ handler.pc = "route"
    /\ isBookingAction(handler.content)
    /\ parseButtonAction(handler.content).type = "slot"
    /\ setTimeSlot(handler.key, parseButtonAction(handler.content).value)
    /\ handler' = Over(Sent([handler EXCEPT !.step = getState(handler.key).step]))

\* lines 134-143: a confirm_ action; the booking is asked for at line 144
ButtonConfirm ==
    /\ handler.pc = "route"
    /\ isBookingAction(handler.content)
    /\ parseButtonAction(handler.content).type = "confirm"
    /\ LET currentState == getState(handler.key)
           h == [handler EXCEPT !.step = currentState.step]
       IN handler' =
            IF ~Truthy(Field(currentState, "name")) THEN Over(Sent(h))
            ELSE IF ~Truthy(Field(currentState, "reason")) THEN Over(Sent(h))
            ELSE [h EXCEPT !.pc = "create", !.created = TRUE]
    /\ UNCHANGED <<coreVars, extVars>>

\* lines 144-160: createBooking has answered, with success or with an error
BookingAnswered(success) ==
    /\ handler.pc = "create"
    /\ clearState(handler.key)
    /\ handler' = Over(Sent(handler))

\* lines 152-158, 314-317: createBooking has answered and the sock.sendMessage
\* that reports it rejects (the connection has closed); line 159 is not
\* reached, the catch of processMessage logs the error
BookingReportRejected ==
    /\ handler.pc = "create"
    /\ handler' = [Over(handler) EXCEPT !.threw = TRUE]
    /\ UNCHANGED <<coreVars, extVars>>

\* lines 162-165: a cancel_ action
ButtonCancel ==
    /\ handler.pc = "route"
    /\ isBookingAction(handler.content)
    /\ parseButtonAction(handler.content).type = "cancel"
    /\ clearState(handler.key)
    /\ handler' = Over(Sent([handler EXCEPT !.step = getState(handler.key).step]))

\* what handleBookingButton leaves to the text handler: lines 249-255, 169
NotHandledAsButton(content) ==
    isBookingAction(content) =>
        parseButtonAction(content).type \notin {"date", "slot", "confirm", "cancel"}

\* lines 177-189: a text while the reason is awaited
TextReason ==
    /\ handler.pc = "route"
    /\ NotHandledAsButton(handler.content)
    /\ getState(handler.key).step = BOOKING_STEPS.AWAITING_REASON
    /\ LET reason == TextOf(handler.content)
           h == [handler EXCEPT !.step = getState(handler.key).step]
       IN IF TrimmedLength(reason) < 3
          THEN /\ handler' = Over(Sent(h))
               /\ UNCHANGED fsmVars
          ELSE /\ bookingStates' = setState(handler.key,
                        [step |-> BOOKING_STEPS.AWAITING_DATE, reason |-> reason])
               /\ flow' = [flow EXCEPT ![handler.key] = OffTrack]
               /\ handler' = [h EXCEPT !.pc = "dates"]
    /\ UNCHANGED <<bookingVars, convVars, extVars>>

\* lines 191-209: a text while the name is awaited
TextName ==
    /\ handler.pc = "route"
    /\ NotHandledAsButton(handler.content)
    /\ getState(handler.key).step = BOOKING_STEPS.AWAITING_NAME
    /\ LET named == setState(handler.key,
                        [step |-> BOOKING_STEPS.AWAITING_CONFIRM,
                         name |-> TextOf(handler.content)])
           updatedState == named[handler.key]
       IN IF ~Truthy(Field(updatedState, "reason"))
          THEN /\ bookingStates' =
                    [named EXCEPT ![handler.key] =
                        Spread(Spread(updatedState,
                                      [step |-> BOOKING_STEPS.AWAITING_REASON]),
                               [updatedAt |-> now])]
               /\ flow' = [flow EXCEPT ![handler.key] = OffTrack]
          ELSE /\ bookingStates' = named
               /\ Follow(handler.key, 4, "name", TextOf(handler.content))
    /\ handler' = Over(Sent([handler EXCEPT !.step = getState(handler.key).step]))
    /\ UNCHANGED <<bookingVars, convVars, extVars>>

\* lines 258-266: neither handler took the message; generateResponse is called
Generate ==
    /\ handler.pc = "route"
    /\ NotHandledAsButton(handler.content)
    /\ getState(handler.key).step \notin
            {BOOKING_STEPS.AWAITING_REASON, BOOKING_STEPS.AWAITING_NAME}
    /\ handler' = [handler EXCEPT !.pc = "generate", !.generated = TRUE,
                                  !.step = getState(handler.key).step]
    /\ UNCHANGED <<coreVars, extVars>>

\* lines 270-290: the response carries a [BOOKING:action] marker
BookingMarker(response) ==
    /\ handler.pc = "generate"
    /\ response.marker = "BOOKING"
    /\ LET got == [handler EXCEPT !.response = response]
           h == IF response.text # "" THEN Sent(got) ELSE got
       IN IF response.action = "dates"
          THEN /\ startBooking(handler.key, JsNull, JsNull)
               /\ handler' = Over(Sent(h))
          ELSE /\ handler' = Over(h)
               /\ UNCHANGED <<coreVars, extVars>>

\* lines 293-310: a [BUTTONS:...] marker, or a plain text
PlainOrButtons(response) ==
    /\ handler.pc = "generate"
    /\ response.marker # "BOOKING"
    /\ handler' = Over(Sent([handler EXCEPT !.response = response]))
    /\ UNCHANGED <<coreVars, extVars>>

\* lines 68-90: getAvailableSlots has answered
SlotButtonsAnswered(none) ==
    /\ handler.pc = "slots"
    /\ handler' = IF none THEN [Sent(handler) EXCEPT !.pc = "dates"]
                  ELSE Over(Sent(handler))
    /\ UNCHANGED <<coreVars, extVars>>

\* lines 46-63: getNextAvailableDates has answered, with or without dates
DatesAnswered ==
    /\ handler.pc = "dates"
    /\ handler' = Over(Sent(handler))
    /\ UNCHANGED <<coreVars, extVars>>

\* lines 314-317: a call into consultantService rejected (getSettings and
\* getAvailableSlots rethrow what the store throws, consultantService.js
\* lines 98-101, 271-274); the catch logs it and sets the presence
Caught ==
    /\ handler.pc \in {"slots", "dates"}
    /\ handler' = [Over(handler) EXCEPT !.threw = TRUE]
    /\ UNCHANGED <<coreVars, extVars>>

HandlerIdle == handler = IdleHandler

----------------------------------------------------------------------------
(* whatsappService.js: the session of the tenant, with autoInitService's
   session sync.  Sockets are numbered in the order they are made; a socket
   that was made stays open until it closes or is ended. *)

MaxSockets == 3

MaxTimers == 2

Origins == {"http", "timer", "sync"}

LiveStatuses == {"connected", "connecting", "scanning"}

\* DisconnectReason.loggedOut, the QR timeout 408, any other reason
CloseCodes == {"loggedOut", "408", "other"}

\* lines 452-454
getStatus == IF sessions = <<>> THEN "disconnected" ELSE sessions[1].status

\* lines 341-346, on the timeouts still pending
clearReconnectTimer == IF sessions # <<>> /\ sessions[1].reconnectTimer THEN timers - 1
                       ELSE timers

\* lines 348-352: initialize(userId) is called; it returns at once when the
\* session is live, else it awaits the stored auth state
Initialize(origin) ==
    IF getStatus \in LiveStatuses THEN inits' = inits
    ELSE inits' = [inits EXCEPT ![origin] = "auth"]

\* whatsappController.js lines 43-49: a QR request asks for the session
CallInitialize ==
    /\ inits["http"] = "idle"
    /\ Initialize("http")
    /\ suppressed' = FALSE
    /\ UNCHANGED <<sessions, sockets, timers, sync, creds, coreVars, knowVars, waVars, aiVars>>

\* lines 354-371: the auth state is loaded, the socket made, the session set
MakeSocket(origin) ==
    /\ inits[origin] = "auth"
    /\ Len(sockets) < MaxSockets
    /\ sockets' = Append(sockets, TRUE)
    /\ sessions' = <<[sock |-> Len(sockets) + 1, status |-> "connecting",
                     manualDisconnect |-> FALSE, reconnectTimer |-> FALSE]>>
    /\ inits' = [inits EXCEPT ![origin] = "idle"]
    /\ UNCHANGED <<timers, suppressed, sync, creds, coreVars, knowVars, waVars, aiVars>>

\* line 354: useFirebaseAuthState rejects, initialize rejects with it
AuthFailed(origin) ==
    /\ inits[origin] = "auth"
    /\ inits' = [inits EXCEPT ![origin] = "idle"]
    /\ UNCHANGED <<sessions, sockets, timers, suppressed, sync, creds, coreVars,
                   knowVars, waVars, aiVars>>

\* lines 375-384: an open socket reports a QR code
QrUpdate(sock) ==
    /\ sock \in 1..Len(sockets) /\ sockets[sock]
    /\ sessions # <<>>
    /\ sessions' = <<[sessions[1] EXCEPT !.status = "scanning"]>>
    /\ UNCHANGED <<sockets, inits, timers, suppressed, sync, creds, coreVars,
                   knowVars, waVars, aiVars>>

\* lines 417-426: an open socket reports the connection open; the
\* credentials it was given are stored (line 373)
OpenUpdate(sock) ==
    /\ sock \in 1..Len(sockets) /\ sockets[sock]
    /\ sessions # <<>>
    /\ sessions' = <<[sessions[1] EXCEPT !.status = "connected"]>>
    /\ creds' = TRUE
    /\ UNCHANGED <<sockets, inits, timers, suppressed, sync, coreVars, knowVars, waVars, aiVars>>

\* lines 386-416: a socket reports the connection closed
CloseUpdate(sock, statusCode) ==
    /\ sock \in 1..Len(sockets) /\ sockets[sock]
    /\ sockets' = [sockets EXCEPT ![sock] = FALSE]
    /\ IF sessions = <<>>
       THEN UNCHANGED <<sessions, timers, suppressed>>
       ELSE LET shouldReconnect == /\ ~sessions[1].manualDisconnect
                                   /\ statusCode # "loggedOut"
                                   /\ statusCode # "408"
            IN IF shouldReconnect
               THEN /\ clearReconnectTimer < MaxTimers
                    /\ timers' = clearReconnectTimer + 1
                    /\ sessions' = <<[sessions[1] EXCEPT !.status = "disconnected",
                                                         !.reconnectTimer = TRUE]>>
                    /\ UNCHANGED suppressed
               ELSE /\ timers' = clearReconnectTimer
                    /\ sessions' = <<>>
                    /\ suppressed' = (suppressed \/ statusCode = "loggedOut")
    /\ UNCHANGED <<inits, sync, creds, coreVars, knowVars, waVars, aiVars>>

\* lines 399-407: a reconnect timeout fires
ReconnectTimer ==
    /\ timers > 0
    /\ inits["timer"] = "idle"
    /\ timers' = timers - 1
    /\ sessions' = IF sessions = <<>> THEN sessions
                   ELSE <<[sessions[1] EXCEPT !.reconnectTimer = FALSE,
                                              !.manualDisconnect = FALSE]>>
    /\ Initialize("timer")
    /\ UNCHANGED <<sockets, suppressed, sync, creds, coreVars, knowVars, waVars, aiVars>>

\* lines 456-471: disconnect(userId); the socket it ends reports its close
\* while the session still says manualDisconnect
Disconnect ==
    /\ timers' = clearReconnectTimer
    /\ sockets' = IF sessions = <<>> THEN sockets
                  ELSE [sockets EXCEPT ![sessions[1].sock] = FALSE]
    /\ sessions' = <<>>
    /\ suppressed' = TRUE
    /\ UNCHANGED <<inits, sync, creds, coreVars, knowVars, waVars, aiVars>>

\* autoInitService.js lines 64-69: a sync starts unless one is running
SyncStart ==
    /\ sync = "idle"
    /\ sync' = "listing"
    /\ UNCHANGED <<sessions, sockets, inits, timers, suppressed, creds, coreVars,
                   knowVars, waVars, aiVars>>

\* autoInitService.js lines 69-95: the tenants with stored credentials are
\* listed; a tenant whose status is not live is initialized
SyncVisit ==
    /\ sync = "listing"
    /\ inits["sync"] = "idle"
    /\ IF creds /\ getStatus \notin LiveStatuses
       THEN /\ inits' = [inits EXCEPT !["sync"] = "auth"]
            /\ sync' = "waiting"
       ELSE /\ sync' = "idle"
            /\ UNCHANGED inits
    /\ UNCHANGED <<sessions, sockets, timers, suppressed, creds, coreVars, knowVars, waVars, aiVars>>

\* autoInitService.js lines 92-106: initialize has settled or the 10 s are
\* over, the gap has passed, the sync ends
SyncEnd ==
    /\ sync = "waiting"
    /\ sync' = "idle"
    /\ UNCHANGED <<sessions, sockets, inits, timers, suppressed, creds, coreVars,
                   knowVars, waVars, aiVars>>

SessionIdle ==
    /\ sessions = <<>>
    /\ sockets = <<>>
    /\ inits = [o \in Origins |-> "idle"]
    /\ timers = 0
    /\ suppressed = FALSE
    /\ sync = "idle"
    /\ creds = FALSE

----------------------------------------------------------------------------
(* aiService.js: generateResponse, lines 198-563.  Every call it awaits is
   outside the process: it resolves, rejects, or is one of the calls that
   never complete (`hung`, fixed when the message arrives). *)

\* the four operations of the Promise.all of lines 236-260
ParallelOps == {"settings", "rag", "consultant", "history"}

\* the calls awaited one after the other, lines 427-503
CompletionOps == {"generate", "function", "followUp"}

\* lines 78-97: analyzeMessageIntent, as the two flags the call depends on
Intents ==
    {[needsRAG |-> r, needsBooking |-> b] : r \in BOOLEAN, b \in BOOLEAN}

\* lines 240-259: the operations the intent asks for; the others are resolved
\* promises
Awaited(intent) ==
    {"settings", "history"}
        \cup (IF intent.needsRAG THEN {"rag"} ELSE {})
        \cup (IF intent.needsBooking THEN {"consultant"} ELSE {})

IdleGen ==
    [pc |-> "idle", intent |-> [needsRAG |-> FALSE, needsBooking |-> FALSE],
     pending |-> {}, hung |-> {}, ragContext |-> "", timedOut |-> FALSE,
     text |-> "none"]

Replied(text) == [IdleGen EXCEPT !.pc = "done", !.text = text]

\* lines 205-220: a pre-built reply, or no AI client
AnswerAtOnce(text) ==
    /\ gen.pc = "idle"
    /\ text \in {"prebuilt", "offline"}
    /\ gen' = Replied(text)
    /\ UNCHANGED <<coreVars, knowVars, sessVars, waVars>>

\* lines 225-260: the intent is analysed and the parallel operations start
CallGenerateResponse(intent, hung) ==
    /\ gen.pc = "idle"
    /\ gen' = [IdleGen EXCEPT !.pc = "parallel", !.intent = intent,
                              !.pending = Awaited(intent), !.hung = hung]
    /\ UNCHANGED <<coreVars, knowVars, sessVars, waVars>>

\* line 236: Promise.all resumes when the last operation has settled
AfterParallel(pending) == IF pending = {} THEN "generate" ELSE "parallel"

\* an operation of the Promise.all settles; each one catches its own errors
\* (lines 242-245, 252-256, firebaseService's catch blocks), so it resolves
ParallelResolve(op, ragContext) ==
    /\ gen.pc = "parallel"
    /\ op \in gen.pending \ gen.hung
    /\ ragContext \in (IF op = "rag" THEN {"", "context"} ELSE {gen.ragContext})
    /\ gen' = [gen EXCEPT !.pending = @ \ {op},
                          !.ragContext = ragContext,
                          !.pc = AfterParallel(gen.pending \ {op})]
    /\ UNCHANGED <<coreVars, knowVars, sessVars, waVars>>

\* lines 233-234, 241-248: withTimeout: the 3000 ms timer wins the race and
\* the fallback '' is the context
RagTimeout ==
    /\ gen.pc = "parallel"
    /\ "rag" \in gen.pending
    /\ gen' = [gen EXCEPT !.pending = @ \ {"rag"},
                          !.ragContext = "",
                          !.timedOut = TRUE,
                          !.pc = AfterParallel(gen.pending \ {"rag"})]
    /\ UNCHANGED <<coreVars, knowVars, sessVars, waVars>>

\* what generateContent can settle with: text, no text, a function call
\* (tools are offered only when the intent needs booking, line 406), an error
Outcomes(intent) ==
    {"text", "empty", "rejected"} \cup (IF intent.needsBooking THEN {"functionCall"} ELSE {})

\* lines 430-431, 507-509, 557-562: the reply a settled completion leads to
ReplyOf(outcome) ==
    CASE outcome = "text" -> "text"
      [] outcome = "empty" -> "default"
      [] outcome = "rejected" -> "trouble"

\* lines 427-431: the completion call settles
GenerateResolve(outcome) ==
    /\ gen.pc = "generate"
    /\ "generate" \notin gen.hung
    /\ outcome \in Outcomes(gen.intent)
    /\ IF outcome = "functionCall"
       THEN gen' = [gen EXCEPT !.pc = "function"]
       ELSE gen' = Replied(ReplyOf(outcome))
    /\ UNCHANGED <<coreVars, knowVars, sessVars, waVars>>

\* lines 446-474: the consultantService call of the function settles; its
\* rejection is caught and becomes the function result
FunctionResolve ==
    /\ gen.pc = "function"
    /\ "function" \notin gen.hung
    /\ gen' = [gen EXCEPT !.pc = "followUp"]
    /\ UNCHANGED <<coreVars, knowVars, sessVars, waVars>>

\* lines 496-503: the follow-up completion (no tools) settles
FollowUpResolve(outcome) ==
    /\ gen.pc = "followUp"
    /\ "followUp" \notin gen.hung
    /\ outcome \in {"text", "empty", "rejected"}
    /\ gen' = Replied(ReplyOf(outcome))
    /\ UNCHANGED <<coreVars, knowVars, sessVars, waVars>>

\* the caller has the reply
GenReturn ==
    /\ gen.pc = "done"
    /\ gen' = IdleGen
    /\ UNCHANGED <<coreVars, knowVars, sessVars, waVars>>

GenIdle == gen = IdleGen

----------------------------------------------------------------------------
(* The state of each component before anything has run *)

EmptyMap == [k \in {} |-> 0]

NoId == <<>>

WaId == <<"w", "a", "_", "1">>

DottedId == <<"a", ".", "b">>

ConversationIds == {NoId, WaId, DottedId}

SafeIds == {normalizeConversationId(c) : c \in ConversationIds}

Keys == {"u1::wa_1", "u1::wa_2"}

BookingIdle ==
    /\ settings = Settings(FALSE, DefaultSlotDuration, DEFAULT_SCHEDULE)
    /\ bookings = <<>>
    /\ nowMinutes = 0
    /\ proc = [p \in Procs |-> IdleProc]

StoreIdle ==
    /\ convDocs = [c \in SafeIds |-> NoDoc]
    /\ legacySub = [c \in SafeIds |-> <<>>]
    /\ legacyFlat = <<>>
    /\ legacyMigrationChecked = {}
    /\ flatQueries = 0
    /\ interactionCount = 0
    /\ aiConfig = <<>>
    /\ cache = EmptyMap
    /\ now = 0
    /\ task = [t \in Tasks |-> IdleTask]
    /\ written = [c \in SafeIds |-> <<>>]

DialogueIdle ==
    /\ bookingStates = EmptyMap
    /\ flow = [k \in Keys |-> OffTrack]

KnowledgeIdle ==
    /\ knowledge = <<>>
    /\ knowledgeSources = EmptyMap
    /\ ragCache = <<>>
    /\ adminDb = TRUE
    /\ isCredentialFailureDisabled = FALSE
    /\ kcall = IdleKcall
    /\ ksearch = IdleKsearch
    /\ warnings = 0

ExtIdle == KnowledgeIdle /\ HandlerIdle /\ SessionIdle /\ GenIdle

----------------------------------------------------------------------------
(* The booking service: one caller after the other, with staff updates *)

BookingConfigs ==
    {Settings(TRUE, 60, DEFAULT_SCHEDULE), Settings(FALSE, 30, DEFAULT_SCHEDULE)}

InitBooking ==
    /\ settings \in BookingConfigs
    /\ bookings = <<>>
    /\ nowMinutes \in NowValues
    /\ proc = [p \in Procs |-> IdleProc]
    /\ StoreIdle
    /\ DialogueIdle
    /\ ExtIdle

NextAvail ==
    \/ \E date \in Dates : CallGetAvailableSlots(1, date)
    \/ \E date \in Dates, timeSlot \in SlotInputs \cup {T(12, 0)} :
          CallCreateBooking(1, date, timeSlot)
    \/ GetSettingsStep(1)
    \/ QueryBookingsStep(1)
    \/ ExistingQueryStep(1)
    \/ DayCountStep(1)
    \/ InsertStep(1)
    \/ StoreError(1)
    \/ Return(1)
    \/ \E b \in 1..MaxBookings, status \in StaffStatuses : UpdateBookingStatus(b, status)
    \/ Tick

SpecAvail == InitBooking /\ [][NextAvail]_vars

(* The booking service: createBooking calls whose store calls interleave *)

NextRace ==
    \/ \E p \in Procs, date \in CreateDates, timeSlot \in SlotInputs :
          CallCreateBooking(p, date, timeSlot)
    \/ \E p \in Procs : GetSettingsStep(p)
    \/ \E p \in Procs : QueryBookingsStep(p)
    \/ \E p \in Procs : ExistingQueryStep(p)
    \/ \E p \in Procs : DayCountStep(p)
    \/ \E p \in Procs : InsertStep(p)
    \/ \E p \in Procs : StoreError(p)
    \/ \E p \in Procs : Return(p)

SpecRace == InitBooking /\ [][NextRace]_vars

----------------------------------------------------------------------------
(* Slot generation over many schedules *)

ScheduleStarts == {T(9, 0), T(9, 30), T(10, 15)}

ScheduleEnds == {T(11, 0), T(12, 30), T(17, 0)}

BreakStarts == {NoTime, T(11, 45), T(12, 0), T(12, 20)}

BreakEnds == {NoTime, T(12, 10), T(13, 0), T(13, 30)}

Durations == {15, 20, 45, 60, 90, 120}

\* consultantService.js lines 37-43: what normalizeDaySchedule accepts for an
\* enabled day
ValidDay(day) ==
    /\ day.start # NoTime /\ day.end # NoTime
    /\ timeToMinutes(day.start) < timeToMinutes(day.end)
    /\ (day.breakStart # NoTime /\ day.breakEnd # NoTime)
         => timeToMinutes(day.breakStart) < timeToMinutes(day.breakEnd)

EnabledDays ==
    {day \in [enabled : {TRUE}, start : ScheduleStarts, end : ScheduleEnds,
              breakStart : BreakStarts, breakEnd : BreakEnds] : ValidDay(day)}

InitSlots ==
    /\ \E day \in EnabledDays, d \in Durations :
          settings = Settings(TRUE, d, [n \in SeqToSet(DayNames) |-> day])
    /\ bookings = <<>>
    /\ nowMinutes \in NowValues
    /\ proc = [p \in Procs |-> IdleProc]
    /\ StoreIdle
    /\ DialogueIdle
    /\ ExtIdle

NextSlots ==
    \/ \E date \in {Today + 1, Today + 2} : CallGetAvailableSlots(1, date)
    \/ GetSettingsStep(1)
    \/ QueryBookingsStep(1)
    \/ Return(1)

SpecSlots == InitSlots /\ [][NextSlots]_vars

----------------------------------------------------------------------------
(* What the slot list is meant to be *)

\* the minutes of [slot, slot + duration) that fall in [breakStart, breakEnd)
BreakOverlap(slot, duration, day) ==
    IF day.breakStart = NoTime \/ day.breakEnd = NoTime THEN {}
    ELSE {m \in slot..(slot + duration - 1) :
            timeToMinutes(day.breakStart) <= m /\ m < timeToMinutes(day.breakEnd)}

QualifyingStarts(day, duration) ==
    {slot \in 0..1439 :
        /\ slot >= timeToMinutes(day.start)
        /\ (slot - timeToMinutes(day.start)) % duration = 0
        /\ slot + duration <= timeToMinutes(day.end)
        /\ BreakOverlap(slot, duration, day) = {}}

RECURSIVE Ascending(_)
Ascending(minutes) ==
    IF minutes = {} THEN <<>>
    ELSE LET least == CHOOSE m \in minutes : \A n \in minutes : m <= n
         IN <<minutesToTime(least)>> \o Ascending(minutes \ {least})

ExpectedSlots(date) ==
    Ascending(QualifyingStarts(settings.schedule[getDayName(date)], settings.slotDuration))

\* C2: the slot list generated inside getAvailableSlots is, in ascending order,
\* exactly the times start + k*d with slot + d <= end whose interval
\* [slot, slot + d) does not meet [breakStart, breakEnd)
C2_GeneratedSlots ==
    \A p \in Procs :
        proc[p].pc = "queryBookings" => proc[p].allSlots = ExpectedSlots(proc[p].date)

\* C2 witness: the spec's example, 09:00-17:00 with break 12:00-13:00 and 60
\* minute slots, has produced its seven slots
C2_Witness ==
    \E p \in Procs :
        /\ proc[p].pc = "queryBookings"
        /\ settings.slotDuration = 60
        /\ settings.schedule[getDayName(proc[p].date)] = DefaultDay
        /\ proc[p].allSlots = <<T(9, 0), T(10, 0), T(11, 0), T(13, 0), T(14, 0),
                                T(15, 0), T(16, 0)>>

----------------------------------------------------------------------------
(* Claims about createBooking and getAvailableSlots *)

Active(i) == bookings[i].status \in ActiveStatuses

\* C1: whatever the interleaving of two createBooking calls for one date and
\* time slot, the bookings collection never holds two pending/confirmed
\* bookings for the same (date, timeSlot)
C1_NoDoubleBooking ==
    \A i, j \in 1..Len(bookings) :
        (/\ i # j
         /\ Active(i) /\ Active(j)
         /\ bookings[i].date = bookings[j].date)
        => bookings[i].timeSlot # bookings[j].timeSlot

\* the times that have a pending or confirmed booking on the date
ActiveTimes(date) ==
    {t \in {bookings[i].timeSlot : i \in 1..Len(bookings)} :
        \E i \in 1..Len(bookings) :
            /\ bookings[i].date = date /\ bookings[i].timeSlot = t /\ Active(i)}

Unbooked(date) ==
    SelectSeq(ExpectedSlots(date), LAMBDA slot : slot \notin ActiveTimes(date))

\* getAvailableSlots answers caller p with the slot list of an enabled,
\* not-past day in this step
SlotsAnswered(p) ==
    /\ proc[p].op = "slots"
    /\ proc[p].pc = "queryBookings"
    /\ proc'[p].pc = "done"
    /\ proc'[p].result.kind = "slots"

CreateReturns(p) ==
    /\ proc[p].op = "create"
    /\ proc[p].pc \notin {"idle", "done"}
    /\ proc'[p].pc = "done"

\* the slot is in what getAvailableSlots would answer for the date right now
FreshlyAvailable(date, timeSlot) ==
    /\ settings.enabled
    /\ settings.schedule[getDayName(date)].enabled
    /\ date >= Today
    /\ Includes(Unbooked(date), timeSlot)
    /\ date = Today => timeToMinutes(timeSlot) - nowMinutes > 30

\* C4: createBooking inserts only when the slot was in a freshly computed
\* getAvailableSlots result and the narrow query found no pending/confirmed
\* row; every other call returns {success: false, error}, never throws, and
\* leaves the collection as it was; a conflicting row gives 'just booked'
C4_InsertOnlyAfterChecks ==
    [][/\ bookings' # bookings
          => \E p \in Procs : CreateReturns(p) /\ proc'[p].result.success
       /\ \A p \in Procs :
            /\ (proc[p].pc = "queryBookings" /\ proc'[p].pc = "existingQuery")
                 => FreshlyAvailable(proc[p].date, proc[p].timeSlot)
            /\ (proc[p].pc = "existingQuery" /\ proc'[p].pc = "dayCount")
                 => ExistingEmpty(proc[p].date, proc[p].timeSlot)
            /\ CreateReturns(p)
                 => /\ proc'[p].result.kind = "create"
                    /\ proc'[p].result.success
                         => /\ proc[p].slotAvailable /\ proc[p].existingEmpty
                            /\ Len(bookings') = Len(bookings) + 1
                            /\ bookings'[Len(bookings')].date = proc[p].date
                            /\ bookings'[Len(bookings')].timeSlot = proc[p].timeSlot
                            /\ SubSeq(bookings', 1, Len(bookings)) = bookings
                    /\ ~proc'[p].result.success
                         => /\ bookings' = bookings
                            /\ proc'[p].result.error
                                 \in {ErrUnavailable, ErrJustBooked, ErrFailed}
                    /\ (proc[p].pc = "existingQuery"
                        /\ ~ExistingEmpty(proc[p].date, proc[p].timeSlot)
                        /\ proc'[p].result.error # ErrFailed)
                         => proc'[p].result.error = ErrJustBooked]_vars

\* C4 witness: a call that passed the availability check found a conflicting
\* row in the narrow query and returned the 'just booked' failure
C4_Witness ==
    \E p \in Procs :
        /\ proc[p].pc = "done" /\ proc[p].op = "create"
        /\ ~proc[p].result.success
        /\ proc[p].result.error = ErrJustBooked
        /\ \E i \in 1..Len(bookings) :
              bookings[i].date = proc[p].date /\ bookings[i].timeSlot = proc[p].timeSlot

----------------------------------------------------------------------------
(* The booking dialogue: calls on two keys, in any order *)

Reasons == {JsNull, "", "demo"}

StartNames == {JsNull, "Aflah"}

DateInputs == {"2026-02-11", "2026-02-12"}

TimeSlotInputs == {"09:00", "10:00"}

NameInputs == {"Aflah"}

FsmTimes == {0, 30 * 60 * 1000 + 1}

InitFSM ==
    /\ BookingIdle
    /\ StoreIdle
    /\ DialogueIdle
    /\ ExtIdle

\* the first key is taken through every call with every input, the second
\* one is started, given a date and cleared
MainKey == "u1::wa_1"

StartInputs(k) ==
    IF k = MainKey THEN Reasons \X StartNames ELSE {<<"demo", JsNull>>}

NextFSM ==
    \/ \E k \in Keys : \E input \in StartInputs(k) :
          startBooking(k, input[1], input[2]) /\ UNCHANGED waVars
    \/ \E k \in Keys, date \in DateInputs : setDate(k, date) /\ UNCHANGED waVars
    \/ \E timeSlot \in TimeSlotInputs : setTimeSlot(MainKey, timeSlot) /\ UNCHANGED waVars
    \/ \E name \in NameInputs : setName(MainKey, name) /\ UNCHANGED waVars
    \/ \E k \in Keys : clearState(k) /\ UNCHANGED waVars
    \/ cleanupStaleStates /\ UNCHANGED waVars
    \/ Advance(FsmTimes)

SpecFSM == InitFSM /\ [][NextFSM]_vars

----------------------------------------------------------------------------
(* Claims about the booking dialogue *)

\* the state fields a call is allowed to change
SameExcept(before, after, fields) ==
    /\ DOMAIN before \subseteq DOMAIN after
    /\ DOMAIN after \subseteq DOMAIN before \cup fields
    /\ \A f \in DOMAIN before \ fields : after[f] = before[f]

OthersUnchanged(k) == \A j \in Keys \ {k} : getState(j)' = getState(j)

StepOf(stage) ==
    CASE stage = 1 -> BOOKING_STEPS.AWAITING_DATE
      [] stage = 2 -> BOOKING_STEPS.AWAITING_SLOT
      [] stage = 3 -> BOOKING_STEPS.AWAITING_NAME
      [] stage = 4 -> BOOKING_STEPS.AWAITING_CONFIRM

OwnField(stage) ==
    CASE stage = 2 -> "date"
      [] stage = 3 -> "timeSlot"
      [] stage = 4 -> "name"

\* a key whose calls so far are startBooking(key, reason, null) with a known
\* reason, then setDate, setTimeSlot, setName as far as `stage`
OnTrack(k) ==
    /\ flow[k].stage \in 1..4
    /\ flow[k].startName = JsNull
    /\ Truthy(flow[k].reason)

C7_FlowState ==
    \A k \in Keys :
        /\ OnTrack(k) =>
              /\ getState(k).step = StepOf(flow[k].stage)
              /\ getState(k).reason = flow[k].reason
              /\ getState(k).date = flow[k].date
              /\ getState(k).timeSlot = flow[k].timeSlot
              /\ getState(k).name = flow[k].name
        /\ (flow[k].stage = 5 \/ k \notin DOMAIN bookingStates) =>
              getState(k) = [step |-> BOOKING_STEPS.IDLE]

C7_FlowStep ==
    \A k \in Keys :
        /\ (OnTrack(k)' /\ flow'[k].stage > 1 /\ flow'[k].stage = flow[k].stage + 1) =>
              /\ SameExcept(getState(k), getState(k)',
                            {"step", "updatedAt", OwnField(flow'[k].stage)})
              /\ getState(k)'[OwnField(flow'[k].stage)] = flow'[k][OwnField(flow'[k].stage)]
              /\ OthersUnchanged(k)
        /\ (flow'[k].stage = 5 /\ flow[k].stage # 5) => OthersUnchanged(k)

\* C7: after startBooking(key, reason, null) with a known reason the step is
\* AWAITING_DATE, and setDate, setTimeSlot, setName take it to AWAITING_SLOT,
\* AWAITING_NAME, AWAITING_CONFIRM, each changing only its own field and the
\* step (and the update time), so that the state holds every supplied value;
\* after clearState(key), as for a key never started, getState(key) is
\* exactly {step: IDLE}; none of these calls changes another key's state.
C7_BookingFlow == [][C7_FlowStep]_vars /\ []C7_FlowState

C7_Witness ==
    \E k \in Keys, j \in Keys :
        /\ flow[k].stage = 5
        /\ OnTrack(j) /\ flow[j].stage = 4
        /\ getState(j).step = BOOKING_STEPS.AWAITING_CONFIRM
        /\ getState(j).name = "Aflah" /\ getState(j).reason = "demo"

\* C8: right after startBooking(key, reason, name) the step is AWAITING_DATE
\* exactly when the reason is known, whatever the name, and AWAITING_REASON
\* otherwise, and date and timeSlot are null even when an earlier flow on
\* the key had collected them.
C8_StartStep ==
    \A k \in Keys :
        flow[k].stage = 1 =>
            /\ getState(k).step = BOOKING_STEPS.AWAITING_DATE <=> Truthy(flow[k].reason)
            /\ getState(k).step = BOOKING_STEPS.AWAITING_REASON <=> ~Truthy(flow[k].reason)
            /\ getState(k).date = JsNull
            /\ getState(k).timeSlot = JsNull
            /\ getState(k).reason = flow[k].reason
            /\ getState(k).name = flow[k].startName

C8_Witness ==
    \E k \in Keys :
        /\ flow[k].stage = 1
        /\ flow[k].restarted
        /\ flow[k].reason = JsNull /\ flow[k].startName = "Aflah"
        /\ getState(k).step = BOOKING_STEPS.AWAITING_REASON

----------------------------------------------------------------------------
(* The conversation store: appends and reads of two conversations, one call
   after the other *)

ConvInputs == {NoId, WaId}

\* the message limits asked for: the appended conversation is read with
\* limits 4 and 100, the other one with limit 2
Limits(conversationId) == IF conversationId = WaId THEN {4, 100} ELSE {2}

ConvTimes == {0, CACHE_TTL.conversationHistory}

\* the stored array after exchanges 1..n were appended at time 0
Stored(n) ==
    SliceLast([i \in 1..(2 * n) |-> IF i % 2 = 1 THEN UserMessage((i + 1) \div 2, 0)
                                    ELSE ModelMessage(i \div 2, 0)],
              MAX_MESSAGES_PER_CONVERSATION)

PreloadedDoc(n) ==
    IF n = 0 THEN NoDoc
    ELSE [exists |-> TRUE, messages |-> Stored(n), messageCount |-> Len(Stored(n))]

LegacyMessage(n) == [role |-> IF n % 2 = 1 THEN "user" ELSE "model", content |-> -n,
                     timestamp |-> 0]

AppendAllowed(conversationId) ==
    \E base \in {0, Preloaded} :
        Len(written[normalizeConversationId(conversationId)]) - base \in 0..(MaxAppends - 1)

InitConv ==
    /\ BookingIdle
    /\ DialogueIdle
    /\ ExtIdle
    /\ \E n \in {0, Preloaded} :
          /\ convDocs = [c \in SafeIds |-> IF c = WaId THEN PreloadedDoc(n) ELSE NoDoc]
          /\ written = [c \in SafeIds |-> IF c = WaId THEN [i \in 1..n |-> i] ELSE <<>>]
          /\ interactionCount = n
    /\ \/ /\ legacySub = [c \in SafeIds |->
                            IF c = DefaultId
                            THEN <<LegacyMessage(1), LegacyMessage(2), LegacyMessage(3)>>
                            ELSE <<>>]
          /\ legacyFlat = <<>>
       \/ /\ legacySub = [c \in SafeIds |-> <<>>]
          /\ legacyFlat = <<LegacyMessage(5), LegacyMessage(6)>>
    /\ legacyMigrationChecked = {}
    /\ flatQueries = 0
    /\ aiConfig = <<>>
    /\ cache = EmptyMap
    /\ now = 0
    /\ task = [t \in Tasks |-> IdleTask]

NextConv ==
    \/ /\ AppendAllowed(WaId)
       /\ CallAppendExchange(1, WaId, Len(written[normalizeConversationId(WaId)]) + 1)
    \/ AppendGetDoc(1)
    \/ AppendSetDoc(1)
    \/ AppendStats(1)
    \/ AppendStoreError(1)
    \/ \E c \in ConvInputs : \E limit \in Limits(c) : CallGetConversationHistory(1, c, limit)
    \/ HistoryGetDoc(1)
    \/ HistoryLegacySub(1)
    \/ HistoryLegacyFlat(1)
    \/ HistoryStoreError(1)
    \/ TaskReturn(1)
    \/ Advance(ConvTimes)

SpecConv == InitConv /\ [][NextConv]_vars

----------------------------------------------------------------------------
(* Claims about the conversation store *)

Min(a, b) == IF a < b THEN a ELSE b

\* the texts of everything appended to a conversation, oldest first: the
\* user text then the model text of each exchange
AppendedTexts(c) ==
    [i \in 1..(2 * Len(written[c])) |->
        IF i % 2 = 1 THEN [role |-> "user", text |-> 2 * written[c][(i + 1) \div 2] - 1]
        ELSE [role |-> "model", text |-> 2 * written[c][i \div 2]]]

\* seq is the last Len(seq) entries of whole
IsSuffix(seq, whole) ==
    /\ Len(seq) <= Len(whole)
    /\ \A i \in 1..Len(seq) : seq[i] = whole[Len(whole) - Len(seq) + i]

\* C5: the stored message array of a conversation never holds more than 100
\* entries, messageCount is its length, after k appends the length is
\* min(2k, 100), and the array is the most recent part of everything
\* appended.
C5_StoredMessages ==
    \A c \in SafeIds :
        LET doc == convDocs[c]
        IN /\ Len(doc.messages) <= 100
           /\ doc.messageCount = Len(doc.messages)
           /\ Len(doc.messages) = Min(2 * Len(written[c]), 100)
           /\ IsSuffix(FormatHistory(doc.messages), AppendedTexts(c))
           /\ doc.exists <=> written[c] # <<>>

C5_Witness ==
    \E c \in SafeIds :
        /\ 2 * Len(written[c]) > 100
        /\ Len(convDocs[c].messages) = 100
        /\ convDocs[c].messages[1].content = 2 * Len(written[c]) - 99

\* C6: when N exchanges were appended to a conversation, 2N <= 100, a
\* getConversationHistory with limit 2N whose store reads succeed returns
\* those 2N messages in the order appended, whether it is answered from the
\* store or from the cache, and whatever was read and cached before.
C6_RoundTrip ==
    \A c \in ConvInputs :
        LET N == Len(written[normalizeConversationId(c)])
        IN (/\ task[1].pc = "done"
            /\ task[1].op = "history"
            /\ ~task[1].failed
            /\ task[1].conversationId = c
            /\ N >= 1
            /\ 2 * N <= 100
            /\ task[1].messageLimit = 2 * N)
           => task[1].result = Arr(AppendedTexts(normalizeConversationId(c)))

C6_Witness ==
    \E c \in ConvInputs :
        LET N == Len(written[normalizeConversationId(c)])
        IN /\ task[1].pc = "done"
           /\ task[1].op = "history"
           /\ task[1].conversationId = c
           /\ N = 2
           /\ task[1].messageLimit = 4
           /\ task[1].fromCache
           /\ task[1].result = Arr(AppendedTexts(normalizeConversationId(c)))
           /\ \E i \in 1..3 : convDocs[normalizeConversationId(c)].messages[i].timestamp
                                < convDocs[normalizeConversationId(c)].messages[i + 1].timestamp

----------------------------------------------------------------------------
(* The cache under the settings and history calls, with the clock passing
   each time-to-live *)

CacheTimes ==
    {0,
     CACHE_TTL.conversationHistory - 1, CACHE_TTL.conversationHistory + 1,
     CACHE_TTL.aiSettings - 1, CACHE_TTL.aiSettings + 1,
     maxTtl + 1}

Contexts == {1, 2}

InitCache ==
    /\ BookingIdle
    /\ DialogueIdle
    /\ ExtIdle
    /\ convDocs = [c \in SafeIds |-> IF c = WaId THEN PreloadedDoc(1) ELSE NoDoc]
    /\ written = [c \in SafeIds |-> IF c = WaId THEN <<1>> ELSE <<>>]
    /\ interactionCount = 1
    /\ legacySub = [c \in SafeIds |-> <<>>]
    /\ legacyFlat = <<>>
    /\ legacyMigrationChecked = {}
    /\ flatQueries = 0
    /\ aiConfig \in {<<>>, <<1>>}
    /\ cache = EmptyMap
    /\ now = 0
    /\ task = [t \in Tasks |-> IdleTask]

NextCache ==
    \/ CallGetAISettings(1)
    \/ AIGetDoc(1)
    \/ AIGetFiles(1)
    \/ AIStoreError(1)
    \/ \E context \in Contexts : CallUpdateAISettings(1, context)
    \/ AISetDoc(1)
    \/ CallGetConversationHistory(1, WaId, 2)
    \/ HistoryGetDoc(1)
    \/ TaskReturn(1)
    \/ Advance(CacheTimes)
    \/ SweepCache

SpecCache == InitCache /\ [][NextCache]_vars

----------------------------------------------------------------------------
(* Claims about the cache *)

\* the cache key and time-to-live a starting call reads the cache with
KeyOf(call) ==
    IF call.op = "aiSettings" THEN AISettingsCacheKey(UserId)
    ELSE HistoryCacheKey(UserId, call.conversationId, call.messageLimit)

TtlOf(call) ==
    IF call.op = "aiSettings" THEN CACHE_TTL.aiSettings ELSE CACHE_TTL.conversationHistory

\* task 1 starts a call that reads the cache
Gets == task[1].pc = "idle" /\ task'[1].op \in {"aiSettings", "history"}

C9_TtlStep ==
    (Gets /\ KeyOf(task'[1]) \in DOMAIN cache) =>
        LET entry == cache[KeyOf(task'[1])]
            ttl == TtlOf(task'[1])
        IN /\ now < entry.timestamp + ttl => task'[1].cached = entry.data
           /\ now > entry.timestamp + ttl => task'[1].cached = Null

\* C9: a get made while the entry stored at time T is still in the cache
\* (not invalidated, not overwritten) yields the stored value unchanged at
\* any time before T + ttl, and a miss at any time after T + ttl.
C9_Ttl == [][C9_TtlStep]_vars

C9_Witness ==
    /\ task[1].op = "history"
    /\ task[1].pc = "historyGetDoc"
    /\ KeyOf(task[1]) \in DOMAIN cache
    /\ now > cache[KeyOf(task[1])].timestamp + CACHE_TTL.conversationHistory
    /\ cache[KeyOf(task[1])].data # Null
    /\ task[1].cached = Null

C10_CachedAbsenceStep ==
    (/\ Gets
     /\ task'[1].op = "aiSettings"
     /\ KeyOf(task'[1]) \in DOMAIN cache
     /\ now < cache[KeyOf(task'[1])].timestamp + CACHE_TTL.aiSettings)
    => (task'[1].pc = "done" /\ task'[1].fromCache)

\* C10: a getAISettings started while a cache entry for the tenant's
\* settings is younger than the time-to-live is answered from the cache,
\* without a document read, also when the cached outcome is "no settings".
C10_CachedAbsence == [][C10_CachedAbsenceStep]_vars

----------------------------------------------------------------------------
(* The knowledge base: addKnowledge calls, one after the other *)

OpeningHours == "Opening hours are 9 to 5."

Repairs == "We repair laptops."

Prices == "Call us for prices."

Manual == <<"m", "a", "n", "u", "a", "l">>

FaqFile == <<"f", "a", "q", " ", "1">>

\* the calls made: text, source, category
Ingests ==
    {<<<<OpeningHours, Repairs>>, Manual, "general">>,
     <<<<OpeningHours, Repairs>>, Manual, "faq">>,
     <<<<Prices>>, FaqFile, "general">>}

\* search results cached for this tenant and for another one
CachedSearches ==
    <<[key |-> [userId |-> UserId, hash |-> "5d41402abc4b"], data |-> <<>>, timestamp |-> 0],
      [key |-> [userId |-> <<"u", "2">>, hash |-> "5d41402abc4b"], data |-> <<>>,
       timestamp |-> 0]>>

InitKnow ==
    /\ BookingIdle
    /\ StoreIdle
    /\ DialogueIdle
    /\ knowledge = <<>>
    /\ knowledgeSources = EmptyMap
    /\ ragCache \in {<<>>, CachedSearches}
    /\ adminDb \in BOOLEAN
    /\ isCredentialFailureDisabled = FALSE
    /\ kcall = IdleKcall
    /\ ksearch = IdleKsearch
    /\ warnings = 0
    /\ HandlerIdle
    /\ SessionIdle
    /\ GenIdle

NextKnow ==
    \/ \E call \in Ingests :
          /\ \A i \in 1..Len(knowledge) : knowledge[i].writes < MaxWrites
          /\ CallAddKnowledge(call[1], call[2], call[3])
    \/ ProcessTextStep
    \/ CommitStep
    \/ \E credential \in BOOLEAN : CommitError(credential)
    \/ KnowledgeReturn

SpecKnow == InitKnow /\ [][NextKnow]_vars

----------------------------------------------------------------------------
(* Claims about the knowledge base *)

\* the stored documents holding the chunk (source, index, content)
DocsOf(docs, source, index, content) ==
    {i \in 1..Len(docs) :
        docs[i].source = source /\ docs[i].index = index /\ docs[i].content = content}

\* every chunk the committing call writes is already stored
AllStoredBefore ==
    \A i \in kcall.chunks : DocsOf(knowledge, kcall.source, i - 1, kcall.text[i]) # {}

C11_IdempotentStep ==
    (kcall.pc = "commit" /\ kcall'.pc = "done" /\ kcall'.result.success)
    => /\ \A i \in kcall.chunks :
            Cardinality(DocsOf(knowledge', kcall.source, i - 1, kcall.text[i])) = 1
       /\ AllStoredBefore => Len(knowledge') = Len(knowledge)

\* C11: after addKnowledge has stored a chunk (source, index, content) there
\* is exactly one document for it, however often it was ingested, and a call
\* that ingests only chunks ingested before leaves the number of stored
\* chunk documents as it was.
C11_IdempotentIngest == [][C11_IdempotentStep]_vars

C11_Witness ==
    /\ kcall.pc = "done" /\ kcall.result.success
    /\ kcall.result.chunksAdded = 2
    /\ Len(knowledge) = 2
    /\ \A i \in 1..2 : Cardinality(DocsOf(knowledge, kcall.source, i - 1, kcall.text[i])) = 1
    /\ \A i \in 1..2 : knowledge[i].writes = 2

----------------------------------------------------------------------------
(* The message handler: one counterparty, one message after the other *)

InitChat ==
    /\ BookingIdle
    /\ StoreIdle
    /\ DialogueIdle
    /\ ExtIdle

NextChat ==
    \/ \E content \in Contents : ProcessMessage(MainKey, content)
    \/ ButtonDate
    \/ ButtonSlot
    \/ ButtonConfirm
    \/ \E success \in BOOLEAN : BookingAnswered(success)
    \/ ButtonCancel
    \/ TextReason
    \/ TextName
    \/ Generate
    \/ \E response \in Responses : BookingMarker(response)
    \/ \E response \in Responses : PlainOrButtons(response)
    \/ \E none \in BOOLEAN : SlotButtonsAnswered(none)
    \/ DatesAnswered
    \/ Caught

SpecChat == InitChat /\ [][NextChat]_vars

\* C12: every message with content that processMessage has finished
\* handling was answered with at least one message to the counterparty
C12_NeverSilent == handler.pc = "done" => handler.sent >= 1

\* C18: generateResponse is called only for a message that found the booking
\* dialogue of its counterparty at IDLE
C18_BookingFlowFirst == handler.generated => handler.step = BOOKING_STEPS.IDLE

----------------------------------------------------------------------------
(* Token numbers, under SpecAvail: one createBooking after the other *)

\* the bookings stored for the date of booking i before booking i was
EarlierSameDate(i) == {j \in 1..(i - 1) : bookings[j].date = bookings[i].date}

\* C13: the token number of every stored booking is one more than the number
\* of bookings, of any status, stored before it for its date; so the k-th
\* booking of a date carries token k and dates count independently
C13_TokenNumbers ==
    \A i \in 1..Len(bookings) :
        bookings[i].tokenNumber = 1 + Cardinality(EarlierSameDate(i))

\* a second booking of a date whose first booking was rejected got token 2
C13_Witness ==
    /\ Len(bookings) >= 2
    /\ bookings[1].date = bookings[2].date
    /\ bookings[1].status = "rejected"
    /\ bookings[2].tokenNumber = 2

----------------------------------------------------------------------------
(* The booking settings: updateSettings, getAvailableSlots and createBooking,
   one call after the other *)

\* the days a settings input gives for Thursday
DayInputs ==
    [enabled : BOOLEAN, start : {NoTime, T(9, 0), T(14, 0)},
     end : {NoTime, T(9, 0), T(14, 0)}, breakStart : {NoTime, T(12, 0)},
     breakEnd : {NoTime, T(12, 0), T(13, 0)}]

\* and for Saturday
SaturdayInputs == {SaturdayDay, [SaturdayDay EXCEPT !.enabled = TRUE]}

SettingsInputs ==
    {Settings(enabled, 60,
              [DEFAULT_SCHEDULE EXCEPT !["thursday"] = thursday, !["saturday"] = saturday]) :
        enabled \in BOOLEAN, thursday \in DayInputs, saturday \in SaturdayInputs}

SettingsDates == {Today, Today + 2, Today + 3}

InitSettings ==
    /\ settings \in {Settings(FALSE, DefaultSlotDuration, DEFAULT_SCHEDULE),
                     Settings(TRUE, DefaultSlotDuration, DEFAULT_SCHEDULE)}
    /\ bookings = <<>>
    /\ nowMinutes = 480
    /\ proc = [p \in Procs |-> IdleProc]
    /\ StoreIdle
    /\ DialogueIdle
    /\ ExtIdle

NextSettings ==
    \/ \E input \in SettingsInputs : CallUpdateSettings(1, input)
    \/ SetDocStep(1)
    \/ \E date \in SettingsDates : CallGetAvailableSlots(1, date)
    \/ \E date \in {Today, Today + 2} : CallCreateBooking(1, date, T(10, 0))
    \/ GetSettingsStep(1)
    \/ QueryBookingsStep(1)
    \/ ExistingQueryStep(1)
    \/ DayCountStep(1)
    \/ InsertStep(1)
    \/ StoreError(1)
    \/ Return(1)

SpecSettings == InitSettings /\ [][NextSettings]_vars

\* an enabled day given with start not before end, or with both break bounds
\* and the break's start not before its end
BadRange(day) ==
    /\ day.enabled
    /\ \/ /\ isValidTime(day.start) /\ isValidTime(day.end)
          /\ timeToMinutes(day.start) >= timeToMinutes(day.end)
       \/ /\ isValidTime(day.breakStart) /\ isValidTime(day.breakEnd)
          /\ timeToMinutes(day.breakStart) >= timeToMinutes(day.breakEnd)

BadInput(input) == \E d \in DOMAIN input.schedule : BadRange(input.schedule[d])

\* the invariant of a stored schedule
ScheduleInOrder(schedule) ==
    \A d \in DOMAIN schedule :
        schedule[d].enabled =>
            /\ timeToMinutes(schedule[d].start) < timeToMinutes(schedule[d].end)
            /\ (schedule[d].breakStart # NoTime /\ schedule[d].breakEnd # NoTime) =>
                    timeToMinutes(schedule[d].breakStart)
                        < timeToMinutes(schedule[d].breakEnd)

UpdateReturned(p) == proc[p].pc = "done" /\ proc[p].op = "update"

C14_RejectedStep ==
    settings' # settings =>
        /\ proc[1].pc = "setDoc"
        /\ ~BadInput(proc[1].input)
        /\ ScheduleInOrder(settings'.schedule)

C14_Reported == (UpdateReturned(1) /\ BadInput(proc[1].input)) => ~proc[1].result.success

\* C14: updateSettings given a schedule with an enabled day whose start is not
\* before its end, or whose break starts not before it ends, returns false and
\* leaves the stored settings as they were; every schedule it writes is in order
C14_ScheduleValidation == [][C14_RejectedStep]_vars /\ []C14_Reported

\* updateSettings has refused a bad schedule after it had stored a good one
C14_Witness ==
    /\ UpdateReturned(1)
    /\ BadInput(proc[1].input)
    /\ ~proc[1].result.success
    /\ settings.slotDuration = 60

SlotsReturned(p) ==
    proc[p].pc = "done" /\ proc[p].op = "slots" /\ proc[p].result.kind = "slots"

Closed(date) == ~settings.enabled \/ ~settings.schedule[getDayName(date)].enabled

\* C15: getAvailableSlots for a date whose weekday is disabled, or of a tenant
\* whose booking is disabled, answers available = false with no slots
C15_DisabledDay ==
    (SlotsReturned(1) /\ Closed(proc[1].date)) =>
        /\ ~proc[1].result.available
        /\ proc[1].result.slots = <<>>

\* the answer for a Saturday that was booked while enabled and is disabled now
C15_Witness ==
    /\ SlotsReturned(1)
    /\ settings.enabled
    /\ proc[1].date = Today + 2
    /\ ~settings.schedule["saturday"].enabled
    /\ \E i \in 1..Len(bookings) :
          bookings[i].date = Today + 2 /\ bookings[i].status \in ActiveStatuses
    /\ ~proc[1].result.available

----------------------------------------------------------------------------
(* The conversation store called with a conversation id that normalisation
   rewrites: one call after the other *)

RawLimits == {2, 100}

InitRaw ==
    /\ BookingIdle
    /\ StoreIdle
    /\ DialogueIdle
    /\ ExtIdle

NextRaw ==
    \/ /\ AppendAllowed(DottedId)
       /\ CallAppendExchange(1, DottedId,
                             Len(written[normalizeConversationId(DottedId)]) + 1)
    \/ AppendGetDoc(1)
    \/ AppendSetDoc(1)
    \/ AppendStats(1)
    \/ AppendStoreError(1)
    \/ \E limit \in RawLimits : CallGetConversationHistory(1, DottedId, limit)
    \/ HistoryGetDoc(1)
    \/ HistoryLegacySub(1)
    \/ HistoryLegacyFlat(1)
    \/ HistoryStoreError(1)
    \/ TaskReturn(1)
    \/ Advance(ConvTimes)

SpecRaw == InitRaw /\ [][NextRaw]_vars

\* the two texts of the exchange appended last to conversation c
LastAppended(c) ==
    {AppendedTexts(c)[2 * Len(written[c]) - 1], AppendedTexts(c)[2 * Len(written[c])]}

\* C16: a history read that was started after an append to its conversation
\* had completed, and whose store reads succeed, returns the appended exchange
C16_ReadsLastAppend ==
    \A c \in ConversationIds :
        (/\ task[1].pc = "done"
         /\ task[1].op = "history"
         /\ ~task[1].failed
         /\ task[1].conversationId = c
         /\ written[normalizeConversationId(c)] # <<>>)
        => LastAppended(normalizeConversationId(c))
              \subseteq {task[1].result.items[i] : i \in 1..Len(task[1].result.items)}

----------------------------------------------------------------------------
(* The session of one tenant: QR requests, socket events, disconnects, the
   reconnect timeouts and the session sync, in any order *)

InitSession ==
    /\ BookingIdle
    /\ StoreIdle
    /\ DialogueIdle
    /\ KnowledgeIdle
    /\ HandlerIdle
    /\ sessions = <<>>
    /\ sockets = <<>>
    /\ inits = [o \in Origins |-> "idle"]
    /\ timers = 0
    /\ suppressed = FALSE
    /\ sync = "idle"
    /\ creds \in BOOLEAN
    /\ GenIdle

NextSession ==
    \/ CallInitialize
    \/ \E origin \in Origins : MakeSocket(origin)
    \/ \E origin \in Origins : AuthFailed(origin)
    \/ \E sock \in 1..MaxSockets : QrUpdate(sock)
    \/ \E sock \in 1..MaxSockets : OpenUpdate(sock)
    \/ \E sock \in 1..MaxSockets, statusCode \in CloseCodes : CloseUpdate(sock, statusCode)
    \/ ReconnectTimer
    \/ Disconnect
    \/ SyncStart
    \/ SyncVisit
    \/ SyncEnd

SpecSession == InitSession /\ [][NextSession]_vars

C17_NoSocketStep == Len(sockets') > Len(sockets) => ~suppressed

\* C17: after disconnect(userId), or after a close with the logged-out status
\* was handled, no socket is made for the tenant until initialize is asked for
\* from outside again
C17_NoReconnectAfterDisconnect == [][C17_NoSocketStep]_vars

----------------------------------------------------------------------------
(* Bookings and staff status changes, under SpecAvail: one call after the other *)

ActiveAt(date, timeSlot) ==
    {i \in 1..Len(bookings) : /\ bookings[i].date = date
                              /\ bookings[i].timeSlot = timeSlot
                              /\ bookings[i].status \in ActiveStatuses}

\* C19: with createBooking and updateBookingStatus called one after the
\* other, no date and time slot ever has more than one booking whose status
\* is pending or confirmed
C19_OneActivePerSlot ==
    \A i \in 1..Len(bookings) :
        Cardinality(ActiveAt(bookings[i].date, bookings[i].timeSlot)) <= 1

----------------------------------------------------------------------------
(* The conversation store with the tenant's full wipe: one call after the
   other.  The tenant has two conversations, one of them with messages left
   in its legacy subcollection, and two flat legacy messages. *)

InitWipe ==
    /\ BookingIdle
    /\ DialogueIdle
    /\ ExtIdle
    /\ convDocs = [c \in SafeIds |-> IF c \in {WaId, DefaultId} THEN PreloadedDoc(1)
                                     ELSE NoDoc]
    /\ written = [c \in SafeIds |-> IF c \in {WaId, DefaultId} THEN <<1>> ELSE <<>>]
    /\ interactionCount = 2
    /\ legacySub = [c \in SafeIds |->
                        IF c = DefaultId THEN <<LegacyMessage(1), LegacyMessage(2)>>
                        ELSE <<>>]
    /\ legacyFlat = <<LegacyMessage(5), LegacyMessage(6)>>
    /\ legacyMigrationChecked = {}
    /\ flatQueries = 0
    /\ aiConfig = <<>>
    /\ cache = EmptyMap
    /\ now = 0
    /\ task = [t \in Tasks |-> IdleTask]

NextWipe ==
    \/ CallClearAllConversations(1)
    \/ WipeList(1)
    \/ WipeBatch(1)
    \/ WipeDoc(1)
    \/ WipeLegacy(1)
    \/ WipeStoreError(1)
    \/ /\ AppendAllowed(WaId)
       /\ interactionCount < 2 + MaxAppends
       /\ CallAppendExchange(1, WaId, Len(written[normalizeConversationId(WaId)]) + 1)
    \/ AppendGetDoc(1)
    \/ AppendSetDoc(1)
    \/ AppendStats(1)
    \/ AppendStoreError(1)
    \/ \E c \in ConvInputs : CallGetConversationHistory(1, c, 4)
    \/ HistoryGetDoc(1)
    \/ HistoryLegacySub(1)
    \/ HistoryLegacyFlat(1)
    \/ HistoryStoreError(1)
    \/ TaskReturn(1)
    \/ Advance(ConvTimes)

SpecWipe == InitWipe /\ [][NextWipe]_vars

\* C20: a wipe ends in failure only when the listing of the tenant's
\* conversations was rejected; a rejected delete does not end it
C20_BestEffortWipe ==
    (task[1].pc = "done" /\ task[1].op = "wipe" /\ task[1].failed)
        => task[1].result.value.error = "wipeList"

----------------------------------------------------------------------------
(* Claims of the third group *)

\* C21: queried for today, getAvailableSlots returns a generated, unbooked slot
\* if and only if it starts at least 30 minutes after the current tenant-local
\* time; a slot starting exactly 30 minutes from now is returned
C21_ThirtyMinuteBuffer ==
    [][\A p \in Procs :
        (SlotsAnswered(p) /\ proc[p].date = Today)
        => proc'[p].result.slots =
             SelectSeq(Unbooked(Today),
                       LAMBDA slot : timeToMinutes(slot) - nowMinutes >= 30)]_vars

----------------------------------------------------------------------------
(* The history reads of a tenant whose conversations are only in the legacy
   collections, or nowhere: two callers, whose store reads interleave *)

LegacyLimits == {2, 4}

InitLegacy ==
    /\ BookingIdle
    /\ DialogueIdle
    /\ ExtIdle
    /\ convDocs = [c \in SafeIds |-> NoDoc]
    /\ written = [c \in SafeIds |-> <<>>]
    /\ interactionCount = 0
    /\ legacySub = [c \in SafeIds |-> <<>>]
    /\ legacyFlat \in {<<>>, <<LegacyMessage(5), LegacyMessage(6)>>}
    /\ legacyMigrationChecked = {}
    /\ flatQueries = 0
    /\ aiConfig = <<>>
    /\ cache = EmptyMap
    /\ now = 0
    /\ task = [t \in Tasks |-> IdleTask]

NextLegacy ==
    \/ \E t \in Tasks : \E c \in ConvInputs : \E limit \in LegacyLimits :
          CallGetConversationHistory(t, c, limit)
    \/ \E t \in Tasks : HistoryGetDoc(t)
    \/ \E t \in Tasks : HistoryLegacySub(t)
    \/ \E t \in Tasks : HistoryLegacyFlat(t)
    \/ \E t \in Tasks : HistoryStoreError(t)
    \/ \E t \in Tasks : TaskReturn(t)
    \/ Advance(ConvTimes)

SpecLegacy == InitLegacy /\ [][NextLegacy]_vars

\* C22: for a tenant, getConversationHistory queries the flat legacy collection
\* users/{id}/messages at most once in the lifetime of the process, whatever
\* the sequence and the interleaving of the calls
C22_FlatQueriedOnce == flatQueries <= 1

----------------------------------------------------------------------------
(* One conversation read by caller 1 while caller 2 appends to it: the
   fire-and-forget save of one message (aiService.js 548-557) runs while the
   next message of the same contact is answered *)

InitStale ==
    /\ BookingIdle
    /\ DialogueIdle
    /\ ExtIdle
    /\ convDocs = [c \in SafeIds |-> IF c = WaId THEN PreloadedDoc(1) ELSE NoDoc]
    /\ written = [c \in SafeIds |-> IF c = WaId THEN <<1>> ELSE <<>>]
    /\ interactionCount = 1
    /\ legacySub = [c \in SafeIds |-> <<>>]
    /\ legacyFlat = <<>>
    /\ legacyMigrationChecked = {}
    /\ flatQueries = 0
    /\ aiConfig = <<>>
    /\ cache = EmptyMap
    /\ now = 0
    /\ task = [t \in Tasks |-> IdleTask]

NextStale ==
    \/ /\ AppendAllowed(WaId)
       /\ CallAppendExchange(2, WaId, Len(written[normalizeConversationId(WaId)]) + 1)
    \/ AppendGetDoc(2)
    \/ AppendSetDoc(2)
    \/ AppendStats(2)
    \/ AppendStoreError(2)
    \/ \E limit \in Limits(WaId) : CallGetConversationHistory(1, WaId, limit)
    \/ HistoryDocRead(1)
    \/ HistoryDocDelivered(1)
    \/ HistoryStoreError(1)
    \/ \E t \in Tasks : TaskReturn(t)
    \/ Advance(ConvTimes)

SpecStale == InitStale /\ [][NextStale]_vars

\* no append to conversation c stands between its write and its invalidation
AppendsCompleted(c) ==
    \A t \in Tasks :
        ~(/\ task[t].op = "append"
          /\ normalizeConversationId(task[t].conversationId) = c
          /\ task[t].pc = "appendStats")

\* caller t starts getConversationHistory in this step and is answered from
\* the cache
AnsweredFromCache(t) ==
    /\ task[t].pc = "idle"
    /\ task'[t].op = "history"
    /\ task'[t].pc = "done"
    /\ task'[t].fromCache

\* C23: a getConversationHistory call that starts after an appendExchange on
\* its conversation has completed returns the appended exchange, even when an
\* earlier read of the same key was in flight during the append: the cache
\* does not answer it with the history of before the append
C23_NoStaleAfterAppend ==
    [][\A t \in Tasks :
        LET c == normalizeConversationId(task'[t].conversationId)
        IN (AnsweredFromCache(t) /\ AppendsCompleted(c) /\ written[c] # <<>>)
           => LastAppended(c)
                \subseteq {task'[t].result.items[i] :
                              i \in 1..Len(task'[t].result.items)}]_vars

----------------------------------------------------------------------------
(* The retention purge of caller 1 while caller 2 appends to a conversation
   that holds an exchange older than the retention window *)

PurgeTimes == {0, MESSAGE_RETENTION_DAYS * DayMs + 1}

InitPurge ==
    /\ BookingIdle
    /\ DialogueIdle
    /\ ExtIdle
    /\ convDocs = [c \in SafeIds |-> IF c = WaId THEN PreloadedDoc(1) ELSE NoDoc]
    /\ written = [c \in SafeIds |-> IF c = WaId THEN <<1>> ELSE <<>>]
    /\ interactionCount = 1
    /\ legacySub = [c \in SafeIds |-> IF c = WaId THEN <<LegacyMessage(1)>> ELSE <<>>]
    /\ legacyFlat = <<LegacyMessage(5), LegacyMessage(6)>>
    /\ legacyMigrationChecked = {}
    /\ flatQueries = 0
    /\ aiConfig = <<>>
    /\ cache = EmptyMap
    /\ now = 0
    /\ task = [t \in Tasks |-> IdleTask]

NextPurge ==
    \/ CallCleanupOldMessages(1)
    \/ CleanupList(1)
    \/ CleanupUpdateDoc(1)
    \/ CleanupSubQuery(1)
    \/ CleanupSubCommit(1)
    \/ CleanupFlatQuery(1)
    \/ CleanupFlatCommit(1)
    \/ CleanupStoreError(1)
    \/ /\ AppendAllowed(WaId)
       /\ CallAppendExchange(2, WaId, Len(written[normalizeConversationId(WaId)]) + 1)
    \/ AppendGetDoc(2)
    \/ AppendSetDoc(2)
    \/ AppendStats(2)
    \/ AppendStoreError(2)
    \/ \E t \in Tasks : TaskReturn(t)
    \/ Advance(PurgeTimes)

SpecPurge == InitPurge /\ [][NextPurge]_vars

\* the purge of caller t rewrites a conversation document in this step
PurgeRewrites(t) ==
    /\ task[t].op = "cleanup"
    /\ task[t].pc = "cleanupUpdateDoc"
    /\ task'[t].pc = "cleanupSubQuery"

\* C24: the retention purge never removes from a conversation an exchange
\* whose timestamp lies inside the retention window, also when an append to
\* the conversation completes between the purge's read of the conversation
\* documents and its rewrite of the filtered array
C24_PurgeKeepsRecent ==
    [][\A t \in Tasks : \A c \in SafeIds :
        PurgeRewrites(t)
        => \A i \in 1..Len(convDocs[c].messages) :
              convDocs[c].messages[i].timestamp >= now - MESSAGE_RETENTION_DAYS * DayMs
              => Includes(convDocs'[c].messages, convDocs[c].messages[i])]_vars

----------------------------------------------------------------------------
(* generateResponse when some of the calls it awaits never complete *)

InitGen ==
    /\ BookingIdle
    /\ StoreIdle
    /\ DialogueIdle
    /\ ExtIdle

NextGen ==
    \/ \E text \in {"prebuilt", "offline"} : AnswerAtOnce(text)
    \/ \E intent \in Intents : \E hung \in SUBSET (ParallelOps \cup CompletionOps) :
          CallGenerateResponse(intent, hung)
    \/ \E op \in ParallelOps : \E ragContext \in {"", "context"} :
          ParallelResolve(op, ragContext)
    \/ RagTimeout
    \/ \E outcome \in Outcomes(gen.intent) : GenerateResolve(outcome)
    \/ FunctionResolve
    \/ \E outcome \in Outcomes(gen.intent) : FollowUpResolve(outcome)
    \/ GenReturn

SpecGen == InitGen /\ [][NextGen]_vars

\* a call that can settle does settle, and the timer of withTimeout fires
GenFairness ==
    /\ WF_vars(\E op \in ParallelOps : \E ragContext \in {"", "context"} :
                  ParallelResolve(op, ragContext))
    /\ WF_vars(RagTimeout)
    /\ WF_vars(\E outcome \in Outcomes(gen.intent) : GenerateResolve(outcome))
    /\ WF_vars(FunctionResolve)
    /\ WF_vars(\E outcome \in Outcomes(gen.intent) : FollowUpResolve(outcome))

SpecGenFair == SpecGen /\ GenFairness

\* C25: generateResponse eventually returns a reply text, whichever of the
\* external calls it awaits never complete: the RAG context build is replaced
\* by the empty context at its timeout, and a completion call that never
\* resolves does not stall the response for ever
C25_EventuallyReplies == (gen.pc # "idle") ~> (gen.pc = "done")

----------------------------------------------------------------------------
(* The lifecycle of a booking *)

\* the status of booking i changes from `before` to `after` in this step
StatusChange(i, before, after) ==
    /\ i \in 1..Len(bookings)
    /\ bookings[i].status = before
    /\ bookings'[i].status = after

\* C26: every booking is created with status pending; afterwards its status
\* changes only from pending to confirmed or to rejected, or to completed, and
\* the status of a completed booking is never changed again
C26_Lifecycle ==
    [][\A i \in 1..Len(bookings') :
        /\ i > Len(bookings) => bookings'[i].status = "pending"
        /\ i <= Len(bookings) =>
              \/ bookings'[i].status = bookings[i].status
              \/ \E after \in {"confirmed", "rejected"} : StatusChange(i, "pending", after)
              \/ /\ bookings[i].status # "completed"
                 /\ bookings'[i].status = "completed"]_vars

----------------------------------------------------------------------------
(* The dialogue and createBooking *)

\* the fields createBooking is given, all collected
AllCollected(state) ==
    /\ Truthy(Field(state, "reason"))
    /\ Truthy(Field(state, "date"))
    /\ Truthy(Field(state, "timeSlot"))
    /\ Truthy(Field(state, "name"))

\* C27: the booking dialogue calls createBooking only when the state of the
\* conversation is at step AWAITING_CONFIRM with reason, date, timeSlot and
\* name collected; a confirm_ action that arrives at another step does not
\* create a booking
C27_CreateOnlyAtConfirm ==
    handler.pc = "create"
    => /\ getState(handler.key).step = BOOKING_STEPS.AWAITING_CONFIRM
       /\ AllCollected(getState(handler.key))

----------------------------------------------------------------------------
(* Two callers appending to one conversation, their store calls interleaved.
   The exchange of caller t is numbered 2k + t, k being the number of writes
   made when the call starts, so that no two calls carry the same texts.
   updateUserStats' own write succeeds here. *)

InitLost ==
    /\ BookingIdle
    /\ DialogueIdle
    /\ ExtIdle
    /\ \E n \in {0, Preloaded} :
          /\ convDocs = [c \in SafeIds |-> IF c = WaId THEN PreloadedDoc(n) ELSE NoDoc]
          /\ written = [c \in SafeIds |-> IF c = WaId THEN [i \in 1..n |-> i] ELSE <<>>]
          /\ interactionCount = n
    /\ legacySub = [c \in SafeIds |-> <<>>]
    /\ legacyFlat = <<>>
    /\ legacyMigrationChecked = {}
    /\ flatQueries = 0
    /\ aiConfig = <<>>
    /\ cache = EmptyMap
    /\ now = 0
    /\ task = [t \in Tasks |-> IdleTask]

NextLost ==
    \/ \E t \in Tasks :
          /\ AppendAllowed(WaId)
          /\ CallAppendExchange(t, WaId, 2 * Len(written[WaId]) + t)
    \/ \E t \in Tasks : AppendGetDoc(t)
    \/ \E t \in Tasks : AppendSetDoc(t)
    \/ \E t \in Tasks : AppendStatsResolved(t, TRUE)
    \/ \E t \in Tasks : AppendStoreError(t)
    \/ \E t \in Tasks : TaskReturn(t)

SpecLost == InitLost /\ [][NextLost]_vars

\* the two stored messages of exchange number n hold its two texts
ExchangeTexts(n) == FormatHistory(<<UserMessage(n, 0), ModelMessage(n, 0)>>)

\* the exchange written last to conversation c
LastWritten(c) == written[c][Len(written[c])]

HoldsExchange(messages, n) ==
    \E i \in 1..Len(messages) : messages[i].content = 2 * n - 1

\* an array without its last exchange
WithoutLast(messages) == SubSeq(messages, 1, Len(messages) - 2)

\* caller t writes in this step, and the array it built differs from the
\* stored one in the last exchange only: both were built from one array, read
\* by both callers before the other caller wrote
OverwritesLastWrite(t) ==
    /\ task[t].pc = "appendSetDoc"
    /\ task'[t].pc = "appendStats"
    /\ written[WaId] # <<>>
    /\ HoldsExchange(convDocs[WaId].messages, LastWritten(WaId))
    /\ ~HoldsExchange(task[t].messages, LastWritten(WaId))
    /\ WithoutLast(FormatHistory(task[t].messages))
          = WithoutLast(FormatHistory(convDocs[WaId].messages))

\* C28, the array: the write that comes last wins
C28_LastWriteWinsStep ==
    \A t \in Tasks :
        OverwritesLastWrite(t)
        => LET before == FormatHistory(convDocs[WaId].messages)
               after == FormatHistory(convDocs'[WaId].messages)
           IN /\ after = WithoutLast(before) \o ExchangeTexts(task[t].exchange)
              /\ ~HoldsExchange(convDocs'[WaId].messages, LastWritten(WaId))
              /\ Len(after) <= MAX_MESSAGES_PER_CONVERSATION
              /\ convDocs'[WaId].messageCount = Len(after)

\* C28, the counter: every call whose write was made is counted once, the
\* calls still at updateUserStats excepted
C28_CountedOnce ==
    interactionCount =
        Len(written[WaId]) - Cardinality({t \in Tasks : task[t].pc = "appendStats"})

\* C28: when two appendExchange calls for one conversation both read the
\* document before either writes, the stored array is in the end the array
\* that was read plus the exchange of the call that wrote last: the other
\* exchange is lost, the array is within the cap with messageCount its
\* length, and the interaction counter is incremented once per call
C28_LastWriteWins == [][C28_LastWriteWinsStep]_vars /\ []C28_CountedOnce

\* C28 witness: two calls have completed and were counted, one exchange is
\* stored
C28_Witness ==
    /\ \A t \in Tasks : task[t].pc = "done" /\ task[t].op = "append"
    /\ Len(written[WaId]) = 2
    /\ interactionCount = 2
    /\ Len(convDocs[WaId].messages) = 2
    /\ HoldsExchange(convDocs[WaId].messages, written[WaId][2])
    /\ ~HoldsExchange(convDocs[WaId].messages, written[WaId][1])

----------------------------------------------------------------------------
(* Reads after a wipe *)

\* nothing is stored for conversation c: its document, its legacy messages
\* and the flat legacy collection are gone, as after a wipe that succeeded
NothingStored(c) ==
    /\ ~convDocs[c].exists
    /\ legacySub[c] = <<>>
    /\ legacyFlat = <<>>

\* C29: after clearAllConversations has completed successfully,
\* getConversationHistory returns the empty history for every conversation of
\* the tenant until a new exchange is appended to it; no history read before
\* the wipe is served afterwards
C29_EmptyAfterWipe ==
    \A c \in ConvInputs :
        (/\ task[1].pc = "done"
         /\ task[1].op = "history"
         /\ task[1].conversationId = c
         /\ NothingStored(normalizeConversationId(c)))
        => task[1].result = Arr(<<>>)

\* C30: when startBooking was called with the name already known, choosing
\* the time slot (after the date) takes the dialogue to AWAITING_CONFIRM and
\* never to AWAITING_NAME, so the name supplied at the start is not asked
\* for again.
C30_KnownNameSkipped ==
    \A k \in Keys :
        (flow[k].stage = 3 /\ Truthy(flow[k].startName)) =>
            /\ getState(k).step # BOOKING_STEPS.AWAITING_NAME
            /\ getState(k).step = BOOKING_STEPS.AWAITING_CONFIRM

----------------------------------------------------------------------------
(* Claims of the fourth group *)

\* C31: no two stored bookings of a date carry the same tokenNumber; the
\* case checked is the one the claim names, two bookings of the date for
\* different time slots, whose createBooking calls may interleave between
\* the day-count query and the insert.
C31_UniqueTokens ==
    \A i, j \in 1..Len(bookings) :
        (/\ i # j
         /\ bookings[i].date = bookings[j].date
         /\ bookings[i].timeSlot # bookings[j].timeSlot) =>
            bookings[i].tokenNumber # bookings[j].tokenNumber

\* the sockets that were made and have neither closed nor been ended
OpenSockets == {sock \in 1..Len(sockets) : sockets[sock]}

C32_SocketStep == Len(sockets') > Len(sockets) => getStatus \notin LiveStatuses

\* C32: at most one socket of the tenant is open at any time, and no
\* initialize call makes a socket while the tenant's session is connecting,
\* scanning or connected, however QR requests, reconnect timeouts and the
\* session sync interleave.
C32_OneLiveSocket == [][C32_SocketStep]_vars /\ [](Cardinality(OpenSockets) <= 1)

----------------------------------------------------------------------------
(* The knowledge base searched while it is ingested: one searchKnowledge and
   one addKnowledge call at a time, their store calls in any order.
   initialize() has run at start-up, as in index.js, and is not called again. *)

SearchIngests == {<<<<OpeningHours>>, Manual, "general">>}

SearchTimes == {RAG_CACHE_TTL}

InitSearch ==
    /\ BookingIdle
    /\ StoreIdle
    /\ DialogueIdle
    /\ HandlerIdle
    /\ SessionIdle
    /\ GenIdle
    /\ knowledge = <<>>
    /\ knowledgeSources = EmptyMap
    /\ ragCache = <<>>
    /\ adminDb \in BOOLEAN
    /\ isCredentialFailureDisabled = FALSE
    /\ kcall = IdleKcall
    /\ ksearch = IdleKsearch
    /\ warnings = 0

NextSearch ==
    \/ \E queryText \in Queries : CallSearchKnowledge(queryText)
    \/ EmbeddingResolved
    \/ \E limitedChunks \in NearestChunks : FindNearestResolved(limitedChunks)
    \/ \E credential \in BOOLEAN : SearchRejected(credential)
    \/ SearchReturn
    \/ \E call \in SearchIngests :
          /\ \A i \in 1..Len(knowledge) : knowledge[i].writes < MaxWrites
          /\ CallAddKnowledge(call[1], call[2], call[3])
    \/ ProcessTextStep
    \/ adminDb /\ CommitStep
    \/ \E credential \in BOOLEAN : CommitError(credential)
    \/ KnowledgeReturn
    \/ Advance(SearchTimes)

SpecSearch == InitSearch /\ [][NextSearch]_vars

C33_LaterSearchStep ==
    (isCredentialFailureDisabled /\ ksearch.pc = "idle" /\ ksearch'.pc # "idle")
    => /\ ksearch'.pc = "done"
       /\ ksearch'.result = <<>>
       /\ ~ksearch'.embedded
       /\ ~ksearch'.searched

\* C33: once a knowledge operation has detected a credential error, every
\* searchKnowledge call started afterwards returns the empty result at once,
\* without calling the embedding function or the vector store, and the
\* warning that the service is disabled is logged at most once.
C33_DisabledForGood == [][C33_LaterSearchStep]_vars /\ [](warnings <= 1)

\* a search started after the failure was answered empty, without a call,
\* although the cache holds a fresh result for its query
C33_Witness ==
    /\ isCredentialFailureDisabled
    /\ warnings = 1
    /\ ksearch.pc = "done" /\ ksearch.result = <<>>
    /\ ~ksearch.embedded /\ ~ksearch.fromCache
    /\ \E i \in RagPositions(getCacheKey(UserId, KeyText(ksearch.queryText))) :
          /\ ragCache[i].data # <<>>
          /\ now - ragCache[i].timestamp < RAG_CACHE_TTL

----------------------------------------------------------------------------
(* The retention purge with no other writer: one caller appends exchanges as
   time passes and runs the purge, one call after the other.  A second
   conversation holds an old exchange and old legacy messages. *)

RetainTimes == {DayMs, MESSAGE_RETENTION_DAYS * DayMs, MESSAGE_RETENTION_DAYS * DayMs + 1}

InitRetain ==
    /\ BookingIdle
    /\ DialogueIdle
    /\ ExtIdle
    /\ convDocs = [c \in SafeIds |-> IF c = DefaultId THEN PreloadedDoc(1) ELSE NoDoc]
    /\ written = [c \in SafeIds |-> IF c = DefaultId THEN <<1>> ELSE <<>>]
    /\ interactionCount = 1
    /\ legacySub = [c \in SafeIds |->
                        IF c = DefaultId THEN <<LegacyMessage(1), LegacyMessage(2)>>
                        ELSE <<>>]
    /\ legacyFlat = <<LegacyMessage(5), LegacyMessage(6)>>
    /\ legacyMigrationChecked = {}
    /\ flatQueries = 0
    /\ aiConfig = <<>>
    /\ cache = EmptyMap
    /\ now = 0
    /\ task = [t \in Tasks |-> IdleTask]

NextRetain ==
    \/ CallCleanupOldMessages(1)
    \/ CleanupList(1)
    \/ CleanupUpdateDoc(1)
    \/ CleanupSubQuery(1)
    \/ CleanupSubCommit(1)
    \/ CleanupFlatQuery(1)
    \/ CleanupFlatCommit(1)
    \/ CleanupStoreError(1)
    \/ /\ AppendAllowed(WaId)
       /\ CallAppendExchange(1, WaId, Len(written[normalizeConversationId(WaId)]) + 1)
    \/ AppendGetDoc(1)
    \/ AppendSetDoc(1)
    \/ AppendStats(1)
    \/ AppendStoreError(1)
    \/ TaskReturn(1)
    \/ Advance(RetainTimes)

SpecRetain == InitRetain /\ [][NextRetain]_vars

RECURSIVE TotalLen(_, _)
TotalLen(docs, ids) ==
    IF ids = {} THEN 0
    ELSE LET c == CHOOSE x \in ids : TRUE
         IN Len(docs[c]) + TotalLen(docs, ids \ {c})

\* the embedded entries and legacy documents stored for the tenant
StoredEntries(docs, sub, flat) ==
    TotalLen([c \in SafeIds |-> docs[c].messages], SafeIds) + TotalLen(sub, SafeIds)
        + Len(flat)

\* what a purge has counted so far, or returned
PurgeCount(call) == IF call.pc = "done" THEN call.result.value.deleted ELSE call.totalDeleted

NotBefore(messages, cutoff) == \A i \in 1..Len(messages) : messages[i].timestamp >= cutoff

FromCutoff(messages, cutoff) == SelectSeq(messages, LAMBDA msg : ~(msg.timestamp < cutoff))

C34_PurgeStep ==
    (task[1].op = "cleanup" /\ task[1].pc \notin {"idle", "done"}) =>
        LET cutoff == task[1].cutoff
        IN /\ \A c \in SafeIds :
                /\ convDocs'[c].exists = convDocs[c].exists
                /\ convDocs'[c] # convDocs[c] =>
                      /\ convDocs'[c].messages = FromCutoff(convDocs[c].messages, cutoff)
                      /\ convDocs'[c].messageCount = Len(convDocs'[c].messages)
                      /\ Len(convDocs'[c].messages) < Len(convDocs[c].messages)
                /\ legacySub'[c] \in {legacySub[c], FromCutoff(legacySub[c], cutoff)}
           /\ legacyFlat' \in {legacyFlat, FromCutoff(legacyFlat, cutoff)}
           /\ interactionCount' = interactionCount
           /\ ~task'[1].failed =>
                 PurgeCount(task'[1]) - PurgeCount(task[1])
                    = StoredEntries(convDocs, legacySub, legacyFlat)
                        - StoredEntries(convDocs', legacySub', legacyFlat')
           /\ (task'[1].pc = "done" /\ ~task'[1].failed) =>
                 /\ task'[1].result.value.success
                 /\ NotBefore(legacyFlat', cutoff)
                 /\ \A c \in SafeIds : /\ NotBefore(convDocs'[c].messages, cutoff)
                                       /\ NotBefore(legacySub'[c], cutoff)

\* C34: with no other writer, every step of the purge leaves the set of
\* conversation documents and the interaction counter as they were, rewrites
\* a conversation's array only to the entries at or after the cutoff in
\* their order and only when that drops an entry, deletes only legacy
\* documents older than the cutoff, and counts exactly what it removes; when
\* it returns success nothing older than the cutoff is stored and the count
\* returned is the number of entries and legacy documents removed.
C34_PurgeExact == [][C34_PurgeStep]_vars

\* a purge returned after dropping the old exchange of one conversation and
\* the old legacy messages, keeping the exchange written a day later
C34_Witness ==
    /\ task[1].pc = "done" /\ task[1].op = "cleanup" /\ ~task[1].failed
    /\ task[1].result.value.deleted = 6
    /\ convDocs[DefaultId].exists /\ convDocs[DefaultId].messages = <<>>
    /\ Len(convDocs[WaId].messages) = 2
    /\ now = MESSAGE_RETENTION_DAYS * DayMs + 1
    /\ convDocs[WaId].messages[1].timestamp = DayMs

----------------------------------------------------------------------------
(* Repeated history reads of a tenant whose store does not change: caller 1
   reads once and keeps its answer, caller 2 reads afterwards, again and
   again, one call after the other, as time passes *)

NextRepeat ==
    \/ \E c \in ConvInputs : \E limit \in LegacyLimits :
          CallGetConversationHistory(1, c, limit)
    \/ \E c \in ConvInputs : \E limit \in LegacyLimits :
          /\ task[1].pc = "done"
          /\ CallGetConversationHistory(2, c, limit)
    \/ \E t \in Tasks : HistoryGetDoc(t)
    \/ \E t \in Tasks : HistoryLegacySub(t)
    \/ \E t \in Tasks : HistoryLegacyFlat(t)
    \/ \E t \in Tasks : HistoryStoreError(t)
    \/ TaskReturn(2)
    \/ Advance(ConvTimes \cup {2 * CACHE_TTL.conversationHistory})

SpecRepeat == InitLegacy /\ [][NextRepeat]_vars

\* C35: with the store unchanged, two getConversationHistory calls for the
\* same conversation key and limit that both read without an error return
\* equal histories, also when the cached entry of the first has expired and
\* the history is only in the flat legacy collection.
C35_RepeatableHistory ==
    (/\ task[1].pc = "done" /\ ~task[1].failed
     /\ task[2].pc = "done" /\ ~task[2].failed
     /\ task[2].conversationId = task[1].conversationId
     /\ task[2].messageLimit = task[1].messageLimit)
    => task[2].result = task[1].result

----------------------------------------------------------------------------
(* The booking dialogue states as time passes: the sweep is the callback of
   the setInterval of line 167, taken to fire at every multiple of ten
   minutes since the module was loaded; a sweep that finds no stale state
   changes nothing *)

SweepInterval == 10 * 60 * 1000

StaleAge == 30 * 60 * 1000

\* the instants looked at: every five minutes of the first hour, and the
\* millisecond after each
SweepGrid == {m * (SweepInterval \div 2) + d : m \in 0..12, d \in {0, 1}}

SweepDue ==
    /\ now > 0
    /\ now % SweepInterval = 0
    /\ \E k \in DOMAIN bookingStates : bookingStates[k].updatedAt < now - StaleAge

\* time passes to a later instant once the sweep due now has run, and not
\* beyond the next firing of the interval
Pass ==
    /\ ~SweepDue
    /\ Advance(SweepGrid)
    /\ \A m \in 1..6 : ~(now < m * SweepInterval /\ m * SweepInterval < now')

NextSweep ==
    \/ \E k \in Keys : startBooking(k, "demo", JsNull) /\ UNCHANGED waVars
    \/ \E date \in DateInputs : setDate(MainKey, date) /\ UNCHANGED waVars
    \/ \E k \in Keys : clearState(k) /\ UNCHANGED waVars
    \/ now % SweepInterval = 0 /\ cleanupStaleStates /\ UNCHANGED waVars
    \/ Pass

SpecSweep == InitFSM /\ [][NextSweep]_vars

\* the keys whose state a step deletes otherwise than by clearState
Swept == {k \in DOMAIN bookingStates : k \notin DOMAIN bookingStates' /\ flow'[k].stage # 5}

C36_SweepStep ==
    Swept # {} =>
        /\ Swept = {k \in DOMAIN bookingStates : now - bookingStates[k].updatedAt > StaleAge}
        /\ \A k \in DOMAIN bookingStates \ Swept :
              k \in DOMAIN bookingStates' /\ bookingStates'[k] = bookingStates[k]
        /\ \A k \in Swept : getState(k)' = [step |-> BOOKING_STEPS.IDLE]

C36_NotKeptLonger ==
    \A k \in DOMAIN bookingStates : now - bookingStates[k].updatedAt <= StaleAge + SweepInterval

\* C36: a run of the sweep deletes exactly the dialogue states updated more
\* than 30 minutes ago and leaves the others as they are; with a run every
\* ten minutes no state is kept longer than 40 minutes after its last
\* update, and getState of a swept key is {step: IDLE}.
C36_StaleSweep == [][C36_SweepStep]_vars /\ []C36_NotKeptLonger

\* at a firing of the interval the sweep is due for a state updated exactly
\* 40 minutes ago, while the state of another key was updated exactly 30
\* minutes ago
C36_Witness ==
    /\ SweepDue
    /\ MainKey \in DOMAIN bookingStates
    /\ now - bookingStates[MainKey].updatedAt = StaleAge + SweepInterval
    /\ \E k \in DOMAIN bookingStates : now - bookingStates[k].updatedAt = StaleAge

----------------------------------------------------------------------------
(* The message handler on a socket that may fail to send the report of a
   booking *)

NextConfirm ==
    \/ NextChat
    \/ BookingReportRejected

SpecConfirm == InitChat /\ [][NextConfirm]_vars

\* the handler has finished with the message in this step
Handled(type) ==
    /\ handler.pc # "done"
    /\ handler'.pc = "done"
    /\ isBookingAction(handler'.content)
    /\ parseButtonAction(handler'.content).type = type

C37_TerminalStep ==
    /\ Handled("cancel") => getState(handler.key)' = [step |-> BOOKING_STEPS.IDLE]
    /\ (Handled("confirm") /\ handler'.created) =>
            getState(handler.key)' = [step |-> BOOKING_STEPS.IDLE]
    /\ (Handled("confirm") /\ ~handler'.created) => bookingStates' = bookingStates

\* C37: when a cancel_ action has been handled, and when a confirm_ action
\* for which createBooking was called has been handled, whatever createBooking
\* answered, getState of the conversation is {step: IDLE}; a confirm_ action
\* turned down for a missing name or reason leaves the states as they were.
C37_ClearedAtEnd == [][C37_TerminalStep]_vars

----------------------------------------------------------------------------
(* The schedule read back after updateSettings, under SpecSettings *)

\* an enabled day given with a start before its end and either no break or a
\* break whose start is before its end
WellFormedDay(day) ==
    day.enabled =>
        /\ isValidTime(day.start) /\ isValidTime(day.end)
        /\ timeToMinutes(day.start) < timeToMinutes(day.end)
        /\ \/ day.breakStart = NoTime /\ day.breakEnd = NoTime
           \/ /\ isValidTime(day.breakStart) /\ isValidTime(day.breakEnd)
              /\ timeToMinutes(day.breakStart) < timeToMinutes(day.breakEnd)

\* C38: after updateSettings has succeeded for a valid input, the stored
\* settings, which getSettings returns, hold for every enabled day the start,
\* end, breakStart and breakEnd that were submitted; a day submitted without
\* a break is stored without one.
C38_ScheduleRoundTrip ==
    (/\ UpdateReturned(1)
     /\ proc[1].result.success
     /\ \A d \in DOMAIN proc[1].input.schedule : WellFormedDay(proc[1].input.schedule[d]))
    => \A d \in DOMAIN proc[1].input.schedule :
          proc[1].input.schedule[d].enabled =>
              /\ settings.schedule[d].start = proc[1].input.schedule[d].start
              /\ settings.schedule[d].end = proc[1].input.schedule[d].end
              /\ settings.schedule[d].breakStart = proc[1].input.schedule[d].breakStart
              /\ settings.schedule[d].breakEnd = proc[1].input.schedule[d].breakEnd

(* C39: what one saveConversationExchange call asks of the store.  Checked
   under SpecLost, where the conversation starts empty or with Preloaded
   exchanges (two short of the cap), so that calls find it empty, below the
   cap and at the cap. *)

OneEach == [reads |-> 1, writes |-> 1, increments |-> 1]

\* the store calls an unfinished call has had resolved so far
OpsSoFar(t) ==
    CASE task[t].pc = "appendGetDoc" -> NoOps
      [] task[t].pc = "appendSetDoc" -> [NoOps EXCEPT !.reads = 1]
      [] task[t].pc = "appendStats" -> [NoOps EXCEPT !.reads = 1, !.writes = 1]
      [] OTHER -> task[t].ops

\* C39: a saveConversationExchange call that completes has read the
\* conversation document once, written it once and incremented the tenant's
\* interaction counter once, whatever the number of messages it found; on
\* the way there it has never done more than one of each
C39_ConstantCost ==
    \A t \in Tasks :
        task[t].op = "append" =>
            /\ task[t].ops = OpsSoFar(t)
            /\ (task[t].pc = "done" /\ ~task[t].failed) => task[t].ops = OneEach

\* C39 witness: a call has completed at the cap (the oldest exchange has been
\* trimmed away) at the cost of one read, one write and one increment
C39_Witness ==
    \E t \in Tasks :
        /\ task[t].op = "append" /\ task[t].pc = "done" /\ ~task[t].failed
        /\ task[t].ops = OneEach
        /\ Len(convDocs[WaId].messages) = MAX_MESSAGES_PER_CONVERSATION
        /\ convDocs[WaId].messages[1] # Stored(Preloaded)[1]

(* C40: the size of the cache of search results and the entry a full cache
   gives up.  The Map is one for all tenants (line 17), so under SpecEvict
   it starts with the results of other tenants, cached one after another,
   two short of the limit, one short of it or at it; in half of the starts
   the tenant's own result for the opening hours was cached before theirs.
   The tenant then searches, stores knowledge (which invalidates its
   entries, line 233) and lets the time-to-live pass, twice. *)

OtherTenant(i) == <<"t">> \o NumberToString(i)

\* what other tenants cached, the i-th at time i
OtherEntries(n) ==
    [i \in 1..n |-> [key |-> [userId |-> OtherTenant(i), hash |-> "719073425725"],
                     data |-> <<>>, timestamp |-> i]]

OwnEntry ==
    [key |-> getCacheKey(UserId, KeyText("Opening hours")), data |-> <<>>, timestamp |-> 0]

EvictTimes == {MAX_CACHE_SIZE + RAG_CACHE_TTL, MAX_CACHE_SIZE + 2 * RAG_CACHE_TTL}

InitEvict ==
    /\ BookingIdle
    /\ DialogueIdle
    /\ HandlerIdle
    /\ SessionIdle
    /\ GenIdle
    /\ convDocs = [c \in SafeIds |-> NoDoc]
    /\ legacySub = [c \in SafeIds |-> <<>>]
    /\ legacyFlat = <<>>
    /\ legacyMigrationChecked = {}
    /\ flatQueries = 0
    /\ interactionCount = 0
    /\ aiConfig = <<>>
    /\ cache = EmptyMap
    /\ now = MAX_CACHE_SIZE
    /\ task = [t \in Tasks |-> IdleTask]
    /\ written = [c \in SafeIds |-> <<>>]
    /\ knowledge = <<>>
    /\ knowledgeSources = EmptyMap
    /\ \E size \in (MAX_CACHE_SIZE - 2)..MAX_CACHE_SIZE :
          \/ ragCache = OtherEntries(size)
          \/ ragCache = <<OwnEntry>> \o OtherEntries(size - 1)
    /\ adminDb = TRUE
    /\ isCredentialFailureDisabled = FALSE
    /\ kcall = IdleKcall
    /\ ksearch = IdleKsearch
    /\ warnings = 0

NextEvict ==
    \/ \E queryText \in Queries : CallSearchKnowledge(queryText)
    \/ EmbeddingResolved
    \/ \E limitedChunks \in NearestChunks : FindNearestResolved(limitedChunks)
    \/ SearchReturn
    \/ \E call \in SearchIngests :
          /\ \A i \in 1..Len(knowledge) : knowledge[i].writes < MaxWrites
          /\ CallAddKnowledge(call[1], call[2], call[3])
    \/ ProcessTextStep
    \/ CommitStep
    \/ KnowledgeReturn
    \/ Advance(EvictTimes)

SpecEvict == InitEvict /\ [][NextEvict]_vars

\* the cache never holds more than MAX_CACHE_SIZE entries
CacheBounded == Len(ragCache) <= MAX_CACHE_SIZE

\* the keys a list of entries holds
RagKeys(entries) == {entries[i].key : i \in 1..Len(entries)}

\* a setCachedRag call that finds the cache full
FullInsertion ==
    /\ ksearch.pc = "findNearest"
    /\ ksearch'.pc = "done"
    /\ Len(ragCache) >= MAX_CACHE_SIZE

\* the positions of the entries deleted by line 39 in a step: those whose key
\* the Map no longer holds or, when it holds every key still, the one of the
\* key that was set again
EvictedPositions ==
    LET gone == {i \in 1..Len(ragCache) : ragCache[i].key \notin RagKeys(ragCache')}
    IN IF gone # {} THEN gone
       ELSE RagPositions(getCacheKey(UserId, KeyText(ksearch.queryText)))

\* a full cache gives up the key that stands first in the Map
HeadEvictedStep == FullInsertion => EvictedPositions = {1}

HeadEvicted == [][HeadEvictedStep]_vars

C40_EvictStep ==
    FullInsertion =>
        \A i \in EvictedPositions :
            \A j \in 1..Len(ragCache) : ragCache[i].timestamp <= ragCache[j].timestamp

====
